---------------------------- MODULE Spec2Model ----------------------------
(***************************************************************************)
(* Sales reconciliation and retention (FIFO) of the ETL pipeline and the   *)
(* full refresh of the listings: SupabaseManager.upload_all_data and the   *)
(* methods it calls on the sales_unagg and listings_unagg tables, and      *)
(* ETLConfig's retention cutoff.                                           *)
(*                                                                         *)
(* Encoding of the data                                                    *)
(*   - a string is a sequence of characters; a character of Latin-1 is    *)
(*     the one-character string, a character above Latin-1 is the name of  *)
(*     its code point ("U+039C");                                          *)
(*   - a datetime is a record [year, month, day];                          *)
(*   - a formatted date ('%Y-%m-%d', '%Y.%m.%d') is the number             *)
(*     year*10000 + month*100 + day, whose order is the order of the       *)
(*     formatted strings; a missing sale_date is 0 (fillna(0));            *)
(*   - a price is a number, a missing price is 0 (fillna(0));              *)
(*   - a table is the sequence of its rows in insertion order.             *)
(***************************************************************************)
EXTENDS Integers, Sequences, FiniteSets, TLC

VARIABLES
    config,                       \* ETLConfig: retention_window, batch_size
    today,                        \* ETLConfig.today of the current run
    sales_unagg,                  \* the persisted sales table
    pc,                           \* position of upload_all_data
    supabase_sales,               \* prepared incoming batch of the run
    deduplicated_sales,           \* result of step 2
    existing_sales,               \* rows returned by the resolver's range query
    old_deleted,                  \* return value of delete_old_sales_data
    internal_duplicates_removed,  \* len(supabase_sales) - len(deduplicated_sales)
    existing_duplicates_deleted,  \* return value of delete_existing_duplicate_sales
    summary,                      \* the printed Sales FIFO Summary
    failed,                       \* history: requests that raised in this run
    stages,                       \* history: the stages executed in this run
    store0,                       \* history: sales_unagg when the run started
    store_in,                     \* history: sales_unagg before the last stage
    n_inserted,                   \* history: rows inserted by this run
    runs,                         \* history: number of runs started
    all_ok,                       \* history: no request to sales_unagg has raised so far
    uploads,                      \* upload_all_data calls running side by side
    requests,                     \* history: requests the run sent for the sales table
    listings_unagg,               \* the persisted listings table
    supabase_listings             \* prepared listings of the run

vars == <<config, today, sales_unagg, pc, supabase_sales, deduplicated_sales,
          existing_sales, old_deleted, internal_duplicates_removed,
          existing_duplicates_deleted, summary, failed, stages, store0,
          store_in, n_inserted, runs, all_ok, uploads, requests,
          listings_unagg, supabase_listings>>

(***************************************************************************)
(* Bounds of the exploration.                                              *)
(***************************************************************************)
MaxBatch == 3
MaxStore == 3
MaxRuns == 2
MaxWindow == 40
MaxRecoveryBatch == 2
MaxUploadBatch == 2
MaxChunk == 3               \* the small insertion batch sizes explored
MaxListings == 2            \* listings fetched by one run
MaxKeyBatch == 2            \* incoming records of the cycle on keys

(***************************************************************************)
(* Program constants.                                                      *)
(***************************************************************************)
retention_window == 36
batch_size == 500
delete_batch_size == 50

(***************************************************************************)
(* Strings.                                                                *)
(***************************************************************************)
\* the characters str.strip() removes: TAB, LF, VT, FF, CR, FS, GS, RS, US, the
\* blank, NEL and the no-break space of Latin-1, and the spaces and
\* separators above Latin-1
Whitespace ==
    {" ", "\t", "\n", "\r", "\f", "", "", "", "", "",
     "", " ",
     "U+1680", "U+2000", "U+2001", "U+2002", "U+2003", "U+2004", "U+2005",
     "U+2006", "U+2007", "U+2008", "U+2009", "U+200A", "U+2028", "U+2029",
     "U+202F", "U+205F", "U+3000"}

IsSpace(c) == c \in Whitespace

\* the characters str.upper() changes (Unicode 14), in the order of their
\* code points
LowerLetters ==
    <<
      "a", "b", "c", "d", "e", "f", "g", "h", "i", "j", "k", "l", "m", "n",
      "o", "p", "q", "r", "s", "t", "u", "v", "w", "x", "y", "z", "µ", "ß",
      "à", "á", "â", "ã", "ä", "å", "æ", "ç", "è", "é", "ê", "ë", "ì", "í",
      "î", "ï", "ð", "ñ", "ò", "ó", "ô", "õ", "ö", "ø", "ù", "ú", "û", "ü",
      "ý", "þ", "ÿ", "U+0101", "U+0103", "U+0105", "U+0107", "U+0109",
      "U+010B", "U+010D", "U+010F", "U+0111", "U+0113", "U+0115", "U+0117",
      "U+0119", "U+011B", "U+011D", "U+011F", "U+0121", "U+0123", "U+0125",
      "U+0127", "U+0129", "U+012B", "U+012D", "U+012F", "U+0131", "U+0133",
      "U+0135", "U+0137", "U+013A", "U+013C", "U+013E", "U+0140", "U+0142",
      "U+0144", "U+0146", "U+0148", "U+0149", "U+014B", "U+014D", "U+014F",
      "U+0151", "U+0153", "U+0155", "U+0157", "U+0159", "U+015B", "U+015D",
      "U+015F", "U+0161", "U+0163", "U+0165", "U+0167", "U+0169", "U+016B",
      "U+016D", "U+016F", "U+0171", "U+0173", "U+0175", "U+0177", "U+017A",
      "U+017C", "U+017E", "U+017F", "U+0180", "U+0183", "U+0185", "U+0188",
      "U+018C", "U+0192", "U+0195", "U+0199", "U+019A", "U+019E", "U+01A1",
      "U+01A3", "U+01A5", "U+01A8", "U+01AD", "U+01B0", "U+01B4", "U+01B6",
      "U+01B9", "U+01BD", "U+01BF", "U+01C5", "U+01C6", "U+01C8", "U+01C9",
      "U+01CB", "U+01CC", "U+01CE", "U+01D0", "U+01D2", "U+01D4", "U+01D6",
      "U+01D8", "U+01DA", "U+01DC", "U+01DD", "U+01DF", "U+01E1", "U+01E3",
      "U+01E5", "U+01E7", "U+01E9", "U+01EB", "U+01ED", "U+01EF", "U+01F0",
      "U+01F2", "U+01F3", "U+01F5", "U+01F9", "U+01FB", "U+01FD", "U+01FF",
      "U+0201", "U+0203", "U+0205", "U+0207", "U+0209", "U+020B", "U+020D",
      "U+020F", "U+0211", "U+0213", "U+0215", "U+0217", "U+0219", "U+021B",
      "U+021D", "U+021F", "U+0223", "U+0225", "U+0227", "U+0229", "U+022B",
      "U+022D", "U+022F", "U+0231", "U+0233", "U+023C", "U+023F", "U+0240",
      "U+0242", "U+0247", "U+0249", "U+024B", "U+024D", "U+024F", "U+0250",
      "U+0251", "U+0252", "U+0253", "U+0254", "U+0256", "U+0257", "U+0259",
      "U+025B", "U+025C", "U+0260", "U+0261", "U+0263", "U+0265", "U+0266",
      "U+0268", "U+0269", "U+026A", "U+026B", "U+026C", "U+026F", "U+0271",
      "U+0272", "U+0275", "U+027D", "U+0280", "U+0282", "U+0283", "U+0287",
      "U+0288", "U+0289", "U+028A", "U+028B", "U+028C", "U+0292", "U+029D",
      "U+029E", "U+0345", "U+0371", "U+0373", "U+0377", "U+037B", "U+037C",
      "U+037D", "U+0390", "U+03AC", "U+03AD", "U+03AE", "U+03AF", "U+03B0",
      "U+03B1", "U+03B2", "U+03B3", "U+03B4", "U+03B5", "U+03B6", "U+03B7",
      "U+03B8", "U+03B9", "U+03BA", "U+03BB", "U+03BC", "U+03BD", "U+03BE",
      "U+03BF", "U+03C0", "U+03C1", "U+03C2", "U+03C3", "U+03C4", "U+03C5",
      "U+03C6", "U+03C7", "U+03C8", "U+03C9", "U+03CA", "U+03CB", "U+03CC",
      "U+03CD", "U+03CE", "U+03D0", "U+03D1", "U+03D5", "U+03D6", "U+03D7",
      "U+03D9", "U+03DB", "U+03DD", "U+03DF", "U+03E1", "U+03E3", "U+03E5",
      "U+03E7", "U+03E9", "U+03EB", "U+03ED", "U+03EF", "U+03F0", "U+03F1",
      "U+03F2", "U+03F3", "U+03F5", "U+03F8", "U+03FB", "U+0430", "U+0431",
      "U+0432", "U+0433", "U+0434", "U+0435", "U+0436", "U+0437", "U+0438",
      "U+0439", "U+043A", "U+043B", "U+043C", "U+043D", "U+043E", "U+043F",
      "U+0440", "U+0441", "U+0442", "U+0443", "U+0444", "U+0445", "U+0446",
      "U+0447", "U+0448", "U+0449", "U+044A", "U+044B", "U+044C", "U+044D",
      "U+044E", "U+044F", "U+0450", "U+0451", "U+0452", "U+0453", "U+0454",
      "U+0455", "U+0456", "U+0457", "U+0458", "U+0459", "U+045A", "U+045B",
      "U+045C", "U+045D", "U+045E", "U+045F", "U+0461", "U+0463", "U+0465",
      "U+0467", "U+0469", "U+046B", "U+046D", "U+046F", "U+0471", "U+0473",
      "U+0475", "U+0477", "U+0479", "U+047B", "U+047D", "U+047F", "U+0481",
      "U+048B", "U+048D", "U+048F", "U+0491", "U+0493", "U+0495", "U+0497",
      "U+0499", "U+049B", "U+049D", "U+049F", "U+04A1", "U+04A3", "U+04A5",
      "U+04A7", "U+04A9", "U+04AB", "U+04AD", "U+04AF", "U+04B1", "U+04B3",
      "U+04B5", "U+04B7", "U+04B9", "U+04BB", "U+04BD", "U+04BF", "U+04C2",
      "U+04C4", "U+04C6", "U+04C8", "U+04CA", "U+04CC", "U+04CE", "U+04CF",
      "U+04D1", "U+04D3", "U+04D5", "U+04D7", "U+04D9", "U+04DB", "U+04DD",
      "U+04DF", "U+04E1", "U+04E3", "U+04E5", "U+04E7", "U+04E9", "U+04EB",
      "U+04ED", "U+04EF", "U+04F1", "U+04F3", "U+04F5", "U+04F7", "U+04F9",
      "U+04FB", "U+04FD", "U+04FF", "U+0501", "U+0503", "U+0505", "U+0507",
      "U+0509", "U+050B", "U+050D", "U+050F", "U+0511", "U+0513", "U+0515",
      "U+0517", "U+0519", "U+051B", "U+051D", "U+051F", "U+0521", "U+0523",
      "U+0525", "U+0527", "U+0529", "U+052B", "U+052D", "U+052F", "U+0561",
      "U+0562", "U+0563", "U+0564", "U+0565", "U+0566", "U+0567", "U+0568",
      "U+0569", "U+056A", "U+056B", "U+056C", "U+056D", "U+056E", "U+056F",
      "U+0570", "U+0571", "U+0572", "U+0573", "U+0574", "U+0575", "U+0576",
      "U+0577", "U+0578", "U+0579", "U+057A", "U+057B", "U+057C", "U+057D",
      "U+057E", "U+057F", "U+0580", "U+0581", "U+0582", "U+0583", "U+0584",
      "U+0585", "U+0586", "U+0587", "U+10D0", "U+10D1", "U+10D2", "U+10D3",
      "U+10D4", "U+10D5", "U+10D6", "U+10D7", "U+10D8", "U+10D9", "U+10DA",
      "U+10DB", "U+10DC", "U+10DD", "U+10DE", "U+10DF", "U+10E0", "U+10E1",
      "U+10E2", "U+10E3", "U+10E4", "U+10E5", "U+10E6", "U+10E7", "U+10E8",
      "U+10E9", "U+10EA", "U+10EB", "U+10EC", "U+10ED", "U+10EE", "U+10EF",
      "U+10F0", "U+10F1", "U+10F2", "U+10F3", "U+10F4", "U+10F5", "U+10F6",
      "U+10F7", "U+10F8", "U+10F9", "U+10FA", "U+10FD", "U+10FE", "U+10FF",
      "U+13F8", "U+13F9", "U+13FA", "U+13FB", "U+13FC", "U+13FD", "U+1C80",
      "U+1C81", "U+1C82", "U+1C83", "U+1C84", "U+1C85", "U+1C86", "U+1C87",
      "U+1C88", "U+1D79", "U+1D7D", "U+1D8E", "U+1E01", "U+1E03", "U+1E05",
      "U+1E07", "U+1E09", "U+1E0B", "U+1E0D", "U+1E0F", "U+1E11", "U+1E13",
      "U+1E15", "U+1E17", "U+1E19", "U+1E1B", "U+1E1D", "U+1E1F", "U+1E21",
      "U+1E23", "U+1E25", "U+1E27", "U+1E29", "U+1E2B", "U+1E2D", "U+1E2F",
      "U+1E31", "U+1E33", "U+1E35", "U+1E37", "U+1E39", "U+1E3B", "U+1E3D",
      "U+1E3F", "U+1E41", "U+1E43", "U+1E45", "U+1E47", "U+1E49", "U+1E4B",
      "U+1E4D", "U+1E4F", "U+1E51", "U+1E53", "U+1E55", "U+1E57", "U+1E59",
      "U+1E5B", "U+1E5D", "U+1E5F", "U+1E61", "U+1E63", "U+1E65", "U+1E67",
      "U+1E69", "U+1E6B", "U+1E6D", "U+1E6F", "U+1E71", "U+1E73", "U+1E75",
      "U+1E77", "U+1E79", "U+1E7B", "U+1E7D", "U+1E7F", "U+1E81", "U+1E83",
      "U+1E85", "U+1E87", "U+1E89", "U+1E8B", "U+1E8D", "U+1E8F", "U+1E91",
      "U+1E93", "U+1E95", "U+1E96", "U+1E97", "U+1E98", "U+1E99", "U+1E9A",
      "U+1E9B", "U+1EA1", "U+1EA3", "U+1EA5", "U+1EA7", "U+1EA9", "U+1EAB",
      "U+1EAD", "U+1EAF", "U+1EB1", "U+1EB3", "U+1EB5", "U+1EB7", "U+1EB9",
      "U+1EBB", "U+1EBD", "U+1EBF", "U+1EC1", "U+1EC3", "U+1EC5", "U+1EC7",
      "U+1EC9", "U+1ECB", "U+1ECD", "U+1ECF", "U+1ED1", "U+1ED3", "U+1ED5",
      "U+1ED7", "U+1ED9", "U+1EDB", "U+1EDD", "U+1EDF", "U+1EE1", "U+1EE3",
      "U+1EE5", "U+1EE7", "U+1EE9", "U+1EEB", "U+1EED", "U+1EEF", "U+1EF1",
      "U+1EF3", "U+1EF5", "U+1EF7", "U+1EF9", "U+1EFB", "U+1EFD", "U+1EFF",
      "U+1F00", "U+1F01", "U+1F02", "U+1F03", "U+1F04", "U+1F05", "U+1F06",
      "U+1F07", "U+1F10", "U+1F11", "U+1F12", "U+1F13", "U+1F14", "U+1F15",
      "U+1F20", "U+1F21", "U+1F22", "U+1F23", "U+1F24", "U+1F25", "U+1F26",
      "U+1F27", "U+1F30", "U+1F31", "U+1F32", "U+1F33", "U+1F34", "U+1F35",
      "U+1F36", "U+1F37", "U+1F40", "U+1F41", "U+1F42", "U+1F43", "U+1F44",
      "U+1F45", "U+1F50", "U+1F51", "U+1F52", "U+1F53", "U+1F54", "U+1F55",
      "U+1F56", "U+1F57", "U+1F60", "U+1F61", "U+1F62", "U+1F63", "U+1F64",
      "U+1F65", "U+1F66", "U+1F67", "U+1F70", "U+1F71", "U+1F72", "U+1F73",
      "U+1F74", "U+1F75", "U+1F76", "U+1F77", "U+1F78", "U+1F79", "U+1F7A",
      "U+1F7B", "U+1F7C", "U+1F7D", "U+1F80", "U+1F81", "U+1F82", "U+1F83",
      "U+1F84", "U+1F85", "U+1F86", "U+1F87", "U+1F88", "U+1F89", "U+1F8A",
      "U+1F8B", "U+1F8C", "U+1F8D", "U+1F8E", "U+1F8F", "U+1F90", "U+1F91",
      "U+1F92", "U+1F93", "U+1F94", "U+1F95", "U+1F96", "U+1F97", "U+1F98",
      "U+1F99", "U+1F9A", "U+1F9B", "U+1F9C", "U+1F9D", "U+1F9E", "U+1F9F",
      "U+1FA0", "U+1FA1", "U+1FA2", "U+1FA3", "U+1FA4", "U+1FA5", "U+1FA6",
      "U+1FA7", "U+1FA8", "U+1FA9", "U+1FAA", "U+1FAB", "U+1FAC", "U+1FAD",
      "U+1FAE", "U+1FAF", "U+1FB0", "U+1FB1", "U+1FB2", "U+1FB3", "U+1FB4",
      "U+1FB6", "U+1FB7", "U+1FBC", "U+1FBE", "U+1FC2", "U+1FC3", "U+1FC4",
      "U+1FC6", "U+1FC7", "U+1FCC", "U+1FD0", "U+1FD1", "U+1FD2", "U+1FD3",
      "U+1FD6", "U+1FD7", "U+1FE0", "U+1FE1", "U+1FE2", "U+1FE3", "U+1FE4",
      "U+1FE5", "U+1FE6", "U+1FE7", "U+1FF2", "U+1FF3", "U+1FF4", "U+1FF6",
      "U+1FF7", "U+1FFC", "U+214E", "U+2170", "U+2171", "U+2172", "U+2173",
      "U+2174", "U+2175", "U+2176", "U+2177", "U+2178", "U+2179", "U+217A",
      "U+217B", "U+217C", "U+217D", "U+217E", "U+217F", "U+2184", "U+24D0",
      "U+24D1", "U+24D2", "U+24D3", "U+24D4", "U+24D5", "U+24D6", "U+24D7",
      "U+24D8", "U+24D9", "U+24DA", "U+24DB", "U+24DC", "U+24DD", "U+24DE",
      "U+24DF", "U+24E0", "U+24E1", "U+24E2", "U+24E3", "U+24E4", "U+24E5",
      "U+24E6", "U+24E7", "U+24E8", "U+24E9", "U+2C30", "U+2C31", "U+2C32",
      "U+2C33", "U+2C34", "U+2C35", "U+2C36", "U+2C37", "U+2C38", "U+2C39",
      "U+2C3A", "U+2C3B", "U+2C3C", "U+2C3D", "U+2C3E", "U+2C3F", "U+2C40",
      "U+2C41", "U+2C42", "U+2C43", "U+2C44", "U+2C45", "U+2C46", "U+2C47",
      "U+2C48", "U+2C49", "U+2C4A", "U+2C4B", "U+2C4C", "U+2C4D", "U+2C4E",
      "U+2C4F", "U+2C50", "U+2C51", "U+2C52", "U+2C53", "U+2C54", "U+2C55",
      "U+2C56", "U+2C57", "U+2C58", "U+2C59", "U+2C5A", "U+2C5B", "U+2C5C",
      "U+2C5D", "U+2C5E", "U+2C5F", "U+2C61", "U+2C65", "U+2C66", "U+2C68",
      "U+2C6A", "U+2C6C", "U+2C73", "U+2C76", "U+2C81", "U+2C83", "U+2C85",
      "U+2C87", "U+2C89", "U+2C8B", "U+2C8D", "U+2C8F", "U+2C91", "U+2C93",
      "U+2C95", "U+2C97", "U+2C99", "U+2C9B", "U+2C9D", "U+2C9F", "U+2CA1",
      "U+2CA3", "U+2CA5", "U+2CA7", "U+2CA9", "U+2CAB", "U+2CAD", "U+2CAF",
      "U+2CB1", "U+2CB3", "U+2CB5", "U+2CB7", "U+2CB9", "U+2CBB", "U+2CBD",
      "U+2CBF", "U+2CC1", "U+2CC3", "U+2CC5", "U+2CC7", "U+2CC9", "U+2CCB",
      "U+2CCD", "U+2CCF", "U+2CD1", "U+2CD3", "U+2CD5", "U+2CD7", "U+2CD9",
      "U+2CDB", "U+2CDD", "U+2CDF", "U+2CE1", "U+2CE3", "U+2CEC", "U+2CEE",
      "U+2CF3", "U+2D00", "U+2D01", "U+2D02", "U+2D03", "U+2D04", "U+2D05",
      "U+2D06", "U+2D07", "U+2D08", "U+2D09", "U+2D0A", "U+2D0B", "U+2D0C",
      "U+2D0D", "U+2D0E", "U+2D0F", "U+2D10", "U+2D11", "U+2D12", "U+2D13",
      "U+2D14", "U+2D15", "U+2D16", "U+2D17", "U+2D18", "U+2D19", "U+2D1A",
      "U+2D1B", "U+2D1C", "U+2D1D", "U+2D1E", "U+2D1F", "U+2D20", "U+2D21",
      "U+2D22", "U+2D23", "U+2D24", "U+2D25", "U+2D27", "U+2D2D", "U+A641",
      "U+A643", "U+A645", "U+A647", "U+A649", "U+A64B", "U+A64D", "U+A64F",
      "U+A651", "U+A653", "U+A655", "U+A657", "U+A659", "U+A65B", "U+A65D",
      "U+A65F", "U+A661", "U+A663", "U+A665", "U+A667", "U+A669", "U+A66B",
      "U+A66D", "U+A681", "U+A683", "U+A685", "U+A687", "U+A689", "U+A68B",
      "U+A68D", "U+A68F", "U+A691", "U+A693", "U+A695", "U+A697", "U+A699",
      "U+A69B", "U+A723", "U+A725", "U+A727", "U+A729", "U+A72B", "U+A72D",
      "U+A72F", "U+A733", "U+A735", "U+A737", "U+A739", "U+A73B", "U+A73D",
      "U+A73F", "U+A741", "U+A743", "U+A745", "U+A747", "U+A749", "U+A74B",
      "U+A74D", "U+A74F", "U+A751", "U+A753", "U+A755", "U+A757", "U+A759",
      "U+A75B", "U+A75D", "U+A75F", "U+A761", "U+A763", "U+A765", "U+A767",
      "U+A769", "U+A76B", "U+A76D", "U+A76F", "U+A77A", "U+A77C", "U+A77F",
      "U+A781", "U+A783", "U+A785", "U+A787", "U+A78C", "U+A791", "U+A793",
      "U+A794", "U+A797", "U+A799", "U+A79B", "U+A79D", "U+A79F", "U+A7A1",
      "U+A7A3", "U+A7A5", "U+A7A7", "U+A7A9", "U+A7B5", "U+A7B7", "U+A7B9",
      "U+A7BB", "U+A7BD", "U+A7BF", "U+A7C1", "U+A7C3", "U+A7C8", "U+A7CA",
      "U+A7D1", "U+A7D7", "U+A7D9", "U+A7F6", "U+AB53", "U+AB70", "U+AB71",
      "U+AB72", "U+AB73", "U+AB74", "U+AB75", "U+AB76", "U+AB77", "U+AB78",
      "U+AB79", "U+AB7A", "U+AB7B", "U+AB7C", "U+AB7D", "U+AB7E", "U+AB7F",
      "U+AB80", "U+AB81", "U+AB82", "U+AB83", "U+AB84", "U+AB85", "U+AB86",
      "U+AB87", "U+AB88", "U+AB89", "U+AB8A", "U+AB8B", "U+AB8C", "U+AB8D",
      "U+AB8E", "U+AB8F", "U+AB90", "U+AB91", "U+AB92", "U+AB93", "U+AB94",
      "U+AB95", "U+AB96", "U+AB97", "U+AB98", "U+AB99", "U+AB9A", "U+AB9B",
      "U+AB9C", "U+AB9D", "U+AB9E", "U+AB9F", "U+ABA0", "U+ABA1", "U+ABA2",
      "U+ABA3", "U+ABA4", "U+ABA5", "U+ABA6", "U+ABA7", "U+ABA8", "U+ABA9",
      "U+ABAA", "U+ABAB", "U+ABAC", "U+ABAD", "U+ABAE", "U+ABAF", "U+ABB0",
      "U+ABB1", "U+ABB2", "U+ABB3", "U+ABB4", "U+ABB5", "U+ABB6", "U+ABB7",
      "U+ABB8", "U+ABB9", "U+ABBA", "U+ABBB", "U+ABBC", "U+ABBD", "U+ABBE",
      "U+ABBF", "U+FB00", "U+FB01", "U+FB02", "U+FB03", "U+FB04", "U+FB05",
      "U+FB06", "U+FB13", "U+FB14", "U+FB15", "U+FB16", "U+FB17", "U+FF41",
      "U+FF42", "U+FF43", "U+FF44", "U+FF45", "U+FF46", "U+FF47", "U+FF48",
      "U+FF49", "U+FF4A", "U+FF4B", "U+FF4C", "U+FF4D", "U+FF4E", "U+FF4F",
      "U+FF50", "U+FF51", "U+FF52", "U+FF53", "U+FF54", "U+FF55", "U+FF56",
      "U+FF57", "U+FF58", "U+FF59", "U+FF5A", "U+10428", "U+10429",
      "U+1042A", "U+1042B", "U+1042C", "U+1042D", "U+1042E", "U+1042F",
      "U+10430", "U+10431", "U+10432", "U+10433", "U+10434", "U+10435",
      "U+10436", "U+10437", "U+10438", "U+10439", "U+1043A", "U+1043B",
      "U+1043C", "U+1043D", "U+1043E", "U+1043F", "U+10440", "U+10441",
      "U+10442", "U+10443", "U+10444", "U+10445", "U+10446", "U+10447",
      "U+10448", "U+10449", "U+1044A", "U+1044B", "U+1044C", "U+1044D",
      "U+1044E", "U+1044F", "U+104D8", "U+104D9", "U+104DA", "U+104DB",
      "U+104DC", "U+104DD", "U+104DE", "U+104DF", "U+104E0", "U+104E1",
      "U+104E2", "U+104E3", "U+104E4", "U+104E5", "U+104E6", "U+104E7",
      "U+104E8", "U+104E9", "U+104EA", "U+104EB", "U+104EC", "U+104ED",
      "U+104EE", "U+104EF", "U+104F0", "U+104F1", "U+104F2", "U+104F3",
      "U+104F4", "U+104F5", "U+104F6", "U+104F7", "U+104F8", "U+104F9",
      "U+104FA", "U+104FB", "U+10597", "U+10598", "U+10599", "U+1059A",
      "U+1059B", "U+1059C", "U+1059D", "U+1059E", "U+1059F", "U+105A0",
      "U+105A1", "U+105A3", "U+105A4", "U+105A5", "U+105A6", "U+105A7",
      "U+105A8", "U+105A9", "U+105AA", "U+105AB", "U+105AC", "U+105AD",
      "U+105AE", "U+105AF", "U+105B0", "U+105B1", "U+105B3", "U+105B4",
      "U+105B5", "U+105B6", "U+105B7", "U+105B8", "U+105B9", "U+105BB",
      "U+105BC", "U+10CC0", "U+10CC1", "U+10CC2", "U+10CC3", "U+10CC4",
      "U+10CC5", "U+10CC6", "U+10CC7", "U+10CC8", "U+10CC9", "U+10CCA",
      "U+10CCB", "U+10CCC", "U+10CCD", "U+10CCE", "U+10CCF", "U+10CD0",
      "U+10CD1", "U+10CD2", "U+10CD3", "U+10CD4", "U+10CD5", "U+10CD6",
      "U+10CD7", "U+10CD8", "U+10CD9", "U+10CDA", "U+10CDB", "U+10CDC",
      "U+10CDD", "U+10CDE", "U+10CDF", "U+10CE0", "U+10CE1", "U+10CE2",
      "U+10CE3", "U+10CE4", "U+10CE5", "U+10CE6", "U+10CE7", "U+10CE8",
      "U+10CE9", "U+10CEA", "U+10CEB", "U+10CEC", "U+10CED", "U+10CEE",
      "U+10CEF", "U+10CF0", "U+10CF1", "U+10CF2", "U+118C0", "U+118C1",
      "U+118C2", "U+118C3", "U+118C4", "U+118C5", "U+118C6", "U+118C7",
      "U+118C8", "U+118C9", "U+118CA", "U+118CB", "U+118CC", "U+118CD",
      "U+118CE", "U+118CF", "U+118D0", "U+118D1", "U+118D2", "U+118D3",
      "U+118D4", "U+118D5", "U+118D6", "U+118D7", "U+118D8", "U+118D9",
      "U+118DA", "U+118DB", "U+118DC", "U+118DD", "U+118DE", "U+118DF",
      "U+16E60", "U+16E61", "U+16E62", "U+16E63", "U+16E64", "U+16E65",
      "U+16E66", "U+16E67", "U+16E68", "U+16E69", "U+16E6A", "U+16E6B",
      "U+16E6C", "U+16E6D", "U+16E6E", "U+16E6F", "U+16E70", "U+16E71",
      "U+16E72", "U+16E73", "U+16E74", "U+16E75", "U+16E76", "U+16E77",
      "U+16E78", "U+16E79", "U+16E7A", "U+16E7B", "U+16E7C", "U+16E7D",
      "U+16E7E", "U+16E7F", "U+1E922", "U+1E923", "U+1E924", "U+1E925",
      "U+1E926", "U+1E927", "U+1E928", "U+1E929", "U+1E92A", "U+1E92B",
      "U+1E92C", "U+1E92D", "U+1E92E", "U+1E92F", "U+1E930", "U+1E931",
      "U+1E932", "U+1E933", "U+1E934", "U+1E935", "U+1E936", "U+1E937",
      "U+1E938", "U+1E939", "U+1E93A", "U+1E93B", "U+1E93C", "U+1E93D",
      "U+1E93E", "U+1E93F", "U+1E940", "U+1E941", "U+1E942", "U+1E943"
    >>

\* what str.upper() makes of each of them: one character, or two or three
UpperLetters ==
    <<
      <<"A">>, <<"B">>, <<"C">>, <<"D">>, <<"E">>, <<"F">>, <<"G">>, <<"H">>,
      <<"I">>, <<"J">>, <<"K">>, <<"L">>, <<"M">>, <<"N">>, <<"O">>, <<"P">>,
      <<"Q">>, <<"R">>, <<"S">>, <<"T">>, <<"U">>, <<"V">>, <<"W">>, <<"X">>,
      <<"Y">>, <<"Z">>, <<"U+039C">>, <<"S", "S">>, <<"À">>, <<"Á">>,
      <<"Â">>, <<"Ã">>, <<"Ä">>, <<"Å">>, <<"Æ">>, <<"Ç">>, <<"È">>, <<"É">>,
      <<"Ê">>, <<"Ë">>, <<"Ì">>, <<"Í">>, <<"Î">>, <<"Ï">>, <<"Ð">>, <<"Ñ">>,
      <<"Ò">>, <<"Ó">>, <<"Ô">>, <<"Õ">>, <<"Ö">>, <<"Ø">>, <<"Ù">>, <<"Ú">>,
      <<"Û">>, <<"Ü">>, <<"Ý">>, <<"Þ">>, <<"U+0178">>, <<"U+0100">>,
      <<"U+0102">>, <<"U+0104">>, <<"U+0106">>, <<"U+0108">>, <<"U+010A">>,
      <<"U+010C">>, <<"U+010E">>, <<"U+0110">>, <<"U+0112">>, <<"U+0114">>,
      <<"U+0116">>, <<"U+0118">>, <<"U+011A">>, <<"U+011C">>, <<"U+011E">>,
      <<"U+0120">>, <<"U+0122">>, <<"U+0124">>, <<"U+0126">>, <<"U+0128">>,
      <<"U+012A">>, <<"U+012C">>, <<"U+012E">>, <<"I">>, <<"U+0132">>,
      <<"U+0134">>, <<"U+0136">>, <<"U+0139">>, <<"U+013B">>, <<"U+013D">>,
      <<"U+013F">>, <<"U+0141">>, <<"U+0143">>, <<"U+0145">>, <<"U+0147">>,
      <<"U+02BC", "N">>, <<"U+014A">>, <<"U+014C">>, <<"U+014E">>,
      <<"U+0150">>, <<"U+0152">>, <<"U+0154">>, <<"U+0156">>, <<"U+0158">>,
      <<"U+015A">>, <<"U+015C">>, <<"U+015E">>, <<"U+0160">>, <<"U+0162">>,
      <<"U+0164">>, <<"U+0166">>, <<"U+0168">>, <<"U+016A">>, <<"U+016C">>,
      <<"U+016E">>, <<"U+0170">>, <<"U+0172">>, <<"U+0174">>, <<"U+0176">>,
      <<"U+0179">>, <<"U+017B">>, <<"U+017D">>, <<"S">>, <<"U+0243">>,
      <<"U+0182">>, <<"U+0184">>, <<"U+0187">>, <<"U+018B">>, <<"U+0191">>,
      <<"U+01F6">>, <<"U+0198">>, <<"U+023D">>, <<"U+0220">>, <<"U+01A0">>,
      <<"U+01A2">>, <<"U+01A4">>, <<"U+01A7">>, <<"U+01AC">>, <<"U+01AF">>,
      <<"U+01B3">>, <<"U+01B5">>, <<"U+01B8">>, <<"U+01BC">>, <<"U+01F7">>,
      <<"U+01C4">>, <<"U+01C4">>, <<"U+01C7">>, <<"U+01C7">>, <<"U+01CA">>,
      <<"U+01CA">>, <<"U+01CD">>, <<"U+01CF">>, <<"U+01D1">>, <<"U+01D3">>,
      <<"U+01D5">>, <<"U+01D7">>, <<"U+01D9">>, <<"U+01DB">>, <<"U+018E">>,
      <<"U+01DE">>, <<"U+01E0">>, <<"U+01E2">>, <<"U+01E4">>, <<"U+01E6">>,
      <<"U+01E8">>, <<"U+01EA">>, <<"U+01EC">>, <<"U+01EE">>,
      <<"J", "U+030C">>, <<"U+01F1">>, <<"U+01F1">>, <<"U+01F4">>,
      <<"U+01F8">>, <<"U+01FA">>, <<"U+01FC">>, <<"U+01FE">>, <<"U+0200">>,
      <<"U+0202">>, <<"U+0204">>, <<"U+0206">>, <<"U+0208">>, <<"U+020A">>,
      <<"U+020C">>, <<"U+020E">>, <<"U+0210">>, <<"U+0212">>, <<"U+0214">>,
      <<"U+0216">>, <<"U+0218">>, <<"U+021A">>, <<"U+021C">>, <<"U+021E">>,
      <<"U+0222">>, <<"U+0224">>, <<"U+0226">>, <<"U+0228">>, <<"U+022A">>,
      <<"U+022C">>, <<"U+022E">>, <<"U+0230">>, <<"U+0232">>, <<"U+023B">>,
      <<"U+2C7E">>, <<"U+2C7F">>, <<"U+0241">>, <<"U+0246">>, <<"U+0248">>,
      <<"U+024A">>, <<"U+024C">>, <<"U+024E">>, <<"U+2C6F">>, <<"U+2C6D">>,
      <<"U+2C70">>, <<"U+0181">>, <<"U+0186">>, <<"U+0189">>, <<"U+018A">>,
      <<"U+018F">>, <<"U+0190">>, <<"U+A7AB">>, <<"U+0193">>, <<"U+A7AC">>,
      <<"U+0194">>, <<"U+A78D">>, <<"U+A7AA">>, <<"U+0197">>, <<"U+0196">>,
      <<"U+A7AE">>, <<"U+2C62">>, <<"U+A7AD">>, <<"U+019C">>, <<"U+2C6E">>,
      <<"U+019D">>, <<"U+019F">>, <<"U+2C64">>, <<"U+01A6">>, <<"U+A7C5">>,
      <<"U+01A9">>, <<"U+A7B1">>, <<"U+01AE">>, <<"U+0244">>, <<"U+01B1">>,
      <<"U+01B2">>, <<"U+0245">>, <<"U+01B7">>, <<"U+A7B2">>, <<"U+A7B0">>,
      <<"U+0399">>, <<"U+0370">>, <<"U+0372">>, <<"U+0376">>, <<"U+03FD">>,
      <<"U+03FE">>, <<"U+03FF">>, <<"U+0399", "U+0308", "U+0301">>,
      <<"U+0386">>, <<"U+0388">>, <<"U+0389">>, <<"U+038A">>,
      <<"U+03A5", "U+0308", "U+0301">>, <<"U+0391">>, <<"U+0392">>,
      <<"U+0393">>, <<"U+0394">>, <<"U+0395">>, <<"U+0396">>, <<"U+0397">>,
      <<"U+0398">>, <<"U+0399">>, <<"U+039A">>, <<"U+039B">>, <<"U+039C">>,
      <<"U+039D">>, <<"U+039E">>, <<"U+039F">>, <<"U+03A0">>, <<"U+03A1">>,
      <<"U+03A3">>, <<"U+03A3">>, <<"U+03A4">>, <<"U+03A5">>, <<"U+03A6">>,
      <<"U+03A7">>, <<"U+03A8">>, <<"U+03A9">>, <<"U+03AA">>, <<"U+03AB">>,
      <<"U+038C">>, <<"U+038E">>, <<"U+038F">>, <<"U+0392">>, <<"U+0398">>,
      <<"U+03A6">>, <<"U+03A0">>, <<"U+03CF">>, <<"U+03D8">>, <<"U+03DA">>,
      <<"U+03DC">>, <<"U+03DE">>, <<"U+03E0">>, <<"U+03E2">>, <<"U+03E4">>,
      <<"U+03E6">>, <<"U+03E8">>, <<"U+03EA">>, <<"U+03EC">>, <<"U+03EE">>,
      <<"U+039A">>, <<"U+03A1">>, <<"U+03F9">>, <<"U+037F">>, <<"U+0395">>,
      <<"U+03F7">>, <<"U+03FA">>, <<"U+0410">>, <<"U+0411">>, <<"U+0412">>,
      <<"U+0413">>, <<"U+0414">>, <<"U+0415">>, <<"U+0416">>, <<"U+0417">>,
      <<"U+0418">>, <<"U+0419">>, <<"U+041A">>, <<"U+041B">>, <<"U+041C">>,
      <<"U+041D">>, <<"U+041E">>, <<"U+041F">>, <<"U+0420">>, <<"U+0421">>,
      <<"U+0422">>, <<"U+0423">>, <<"U+0424">>, <<"U+0425">>, <<"U+0426">>,
      <<"U+0427">>, <<"U+0428">>, <<"U+0429">>, <<"U+042A">>, <<"U+042B">>,
      <<"U+042C">>, <<"U+042D">>, <<"U+042E">>, <<"U+042F">>, <<"U+0400">>,
      <<"U+0401">>, <<"U+0402">>, <<"U+0403">>, <<"U+0404">>, <<"U+0405">>,
      <<"U+0406">>, <<"U+0407">>, <<"U+0408">>, <<"U+0409">>, <<"U+040A">>,
      <<"U+040B">>, <<"U+040C">>, <<"U+040D">>, <<"U+040E">>, <<"U+040F">>,
      <<"U+0460">>, <<"U+0462">>, <<"U+0464">>, <<"U+0466">>, <<"U+0468">>,
      <<"U+046A">>, <<"U+046C">>, <<"U+046E">>, <<"U+0470">>, <<"U+0472">>,
      <<"U+0474">>, <<"U+0476">>, <<"U+0478">>, <<"U+047A">>, <<"U+047C">>,
      <<"U+047E">>, <<"U+0480">>, <<"U+048A">>, <<"U+048C">>, <<"U+048E">>,
      <<"U+0490">>, <<"U+0492">>, <<"U+0494">>, <<"U+0496">>, <<"U+0498">>,
      <<"U+049A">>, <<"U+049C">>, <<"U+049E">>, <<"U+04A0">>, <<"U+04A2">>,
      <<"U+04A4">>, <<"U+04A6">>, <<"U+04A8">>, <<"U+04AA">>, <<"U+04AC">>,
      <<"U+04AE">>, <<"U+04B0">>, <<"U+04B2">>, <<"U+04B4">>, <<"U+04B6">>,
      <<"U+04B8">>, <<"U+04BA">>, <<"U+04BC">>, <<"U+04BE">>, <<"U+04C1">>,
      <<"U+04C3">>, <<"U+04C5">>, <<"U+04C7">>, <<"U+04C9">>, <<"U+04CB">>,
      <<"U+04CD">>, <<"U+04C0">>, <<"U+04D0">>, <<"U+04D2">>, <<"U+04D4">>,
      <<"U+04D6">>, <<"U+04D8">>, <<"U+04DA">>, <<"U+04DC">>, <<"U+04DE">>,
      <<"U+04E0">>, <<"U+04E2">>, <<"U+04E4">>, <<"U+04E6">>, <<"U+04E8">>,
      <<"U+04EA">>, <<"U+04EC">>, <<"U+04EE">>, <<"U+04F0">>, <<"U+04F2">>,
      <<"U+04F4">>, <<"U+04F6">>, <<"U+04F8">>, <<"U+04FA">>, <<"U+04FC">>,
      <<"U+04FE">>, <<"U+0500">>, <<"U+0502">>, <<"U+0504">>, <<"U+0506">>,
      <<"U+0508">>, <<"U+050A">>, <<"U+050C">>, <<"U+050E">>, <<"U+0510">>,
      <<"U+0512">>, <<"U+0514">>, <<"U+0516">>, <<"U+0518">>, <<"U+051A">>,
      <<"U+051C">>, <<"U+051E">>, <<"U+0520">>, <<"U+0522">>, <<"U+0524">>,
      <<"U+0526">>, <<"U+0528">>, <<"U+052A">>, <<"U+052C">>, <<"U+052E">>,
      <<"U+0531">>, <<"U+0532">>, <<"U+0533">>, <<"U+0534">>, <<"U+0535">>,
      <<"U+0536">>, <<"U+0537">>, <<"U+0538">>, <<"U+0539">>, <<"U+053A">>,
      <<"U+053B">>, <<"U+053C">>, <<"U+053D">>, <<"U+053E">>, <<"U+053F">>,
      <<"U+0540">>, <<"U+0541">>, <<"U+0542">>, <<"U+0543">>, <<"U+0544">>,
      <<"U+0545">>, <<"U+0546">>, <<"U+0547">>, <<"U+0548">>, <<"U+0549">>,
      <<"U+054A">>, <<"U+054B">>, <<"U+054C">>, <<"U+054D">>, <<"U+054E">>,
      <<"U+054F">>, <<"U+0550">>, <<"U+0551">>, <<"U+0552">>, <<"U+0553">>,
      <<"U+0554">>, <<"U+0555">>, <<"U+0556">>, <<"U+0535", "U+0552">>,
      <<"U+1C90">>, <<"U+1C91">>, <<"U+1C92">>, <<"U+1C93">>, <<"U+1C94">>,
      <<"U+1C95">>, <<"U+1C96">>, <<"U+1C97">>, <<"U+1C98">>, <<"U+1C99">>,
      <<"U+1C9A">>, <<"U+1C9B">>, <<"U+1C9C">>, <<"U+1C9D">>, <<"U+1C9E">>,
      <<"U+1C9F">>, <<"U+1CA0">>, <<"U+1CA1">>, <<"U+1CA2">>, <<"U+1CA3">>,
      <<"U+1CA4">>, <<"U+1CA5">>, <<"U+1CA6">>, <<"U+1CA7">>, <<"U+1CA8">>,
      <<"U+1CA9">>, <<"U+1CAA">>, <<"U+1CAB">>, <<"U+1CAC">>, <<"U+1CAD">>,
      <<"U+1CAE">>, <<"U+1CAF">>, <<"U+1CB0">>, <<"U+1CB1">>, <<"U+1CB2">>,
      <<"U+1CB3">>, <<"U+1CB4">>, <<"U+1CB5">>, <<"U+1CB6">>, <<"U+1CB7">>,
      <<"U+1CB8">>, <<"U+1CB9">>, <<"U+1CBA">>, <<"U+1CBD">>, <<"U+1CBE">>,
      <<"U+1CBF">>, <<"U+13F0">>, <<"U+13F1">>, <<"U+13F2">>, <<"U+13F3">>,
      <<"U+13F4">>, <<"U+13F5">>, <<"U+0412">>, <<"U+0414">>, <<"U+041E">>,
      <<"U+0421">>, <<"U+0422">>, <<"U+0422">>, <<"U+042A">>, <<"U+0462">>,
      <<"U+A64A">>, <<"U+A77D">>, <<"U+2C63">>, <<"U+A7C6">>, <<"U+1E00">>,
      <<"U+1E02">>, <<"U+1E04">>, <<"U+1E06">>, <<"U+1E08">>, <<"U+1E0A">>,
      <<"U+1E0C">>, <<"U+1E0E">>, <<"U+1E10">>, <<"U+1E12">>, <<"U+1E14">>,
      <<"U+1E16">>, <<"U+1E18">>, <<"U+1E1A">>, <<"U+1E1C">>, <<"U+1E1E">>,
      <<"U+1E20">>, <<"U+1E22">>, <<"U+1E24">>, <<"U+1E26">>, <<"U+1E28">>,
      <<"U+1E2A">>, <<"U+1E2C">>, <<"U+1E2E">>, <<"U+1E30">>, <<"U+1E32">>,
      <<"U+1E34">>, <<"U+1E36">>, <<"U+1E38">>, <<"U+1E3A">>, <<"U+1E3C">>,
      <<"U+1E3E">>, <<"U+1E40">>, <<"U+1E42">>, <<"U+1E44">>, <<"U+1E46">>,
      <<"U+1E48">>, <<"U+1E4A">>, <<"U+1E4C">>, <<"U+1E4E">>, <<"U+1E50">>,
      <<"U+1E52">>, <<"U+1E54">>, <<"U+1E56">>, <<"U+1E58">>, <<"U+1E5A">>,
      <<"U+1E5C">>, <<"U+1E5E">>, <<"U+1E60">>, <<"U+1E62">>, <<"U+1E64">>,
      <<"U+1E66">>, <<"U+1E68">>, <<"U+1E6A">>, <<"U+1E6C">>, <<"U+1E6E">>,
      <<"U+1E70">>, <<"U+1E72">>, <<"U+1E74">>, <<"U+1E76">>, <<"U+1E78">>,
      <<"U+1E7A">>, <<"U+1E7C">>, <<"U+1E7E">>, <<"U+1E80">>, <<"U+1E82">>,
      <<"U+1E84">>, <<"U+1E86">>, <<"U+1E88">>, <<"U+1E8A">>, <<"U+1E8C">>,
      <<"U+1E8E">>, <<"U+1E90">>, <<"U+1E92">>, <<"U+1E94">>,
      <<"H", "U+0331">>, <<"T", "U+0308">>, <<"W", "U+030A">>,
      <<"Y", "U+030A">>, <<"A", "U+02BE">>, <<"U+1E60">>, <<"U+1EA0">>,
      <<"U+1EA2">>, <<"U+1EA4">>, <<"U+1EA6">>, <<"U+1EA8">>, <<"U+1EAA">>,
      <<"U+1EAC">>, <<"U+1EAE">>, <<"U+1EB0">>, <<"U+1EB2">>, <<"U+1EB4">>,
      <<"U+1EB6">>, <<"U+1EB8">>, <<"U+1EBA">>, <<"U+1EBC">>, <<"U+1EBE">>,
      <<"U+1EC0">>, <<"U+1EC2">>, <<"U+1EC4">>, <<"U+1EC6">>, <<"U+1EC8">>,
      <<"U+1ECA">>, <<"U+1ECC">>, <<"U+1ECE">>, <<"U+1ED0">>, <<"U+1ED2">>,
      <<"U+1ED4">>, <<"U+1ED6">>, <<"U+1ED8">>, <<"U+1EDA">>, <<"U+1EDC">>,
      <<"U+1EDE">>, <<"U+1EE0">>, <<"U+1EE2">>, <<"U+1EE4">>, <<"U+1EE6">>,
      <<"U+1EE8">>, <<"U+1EEA">>, <<"U+1EEC">>, <<"U+1EEE">>, <<"U+1EF0">>,
      <<"U+1EF2">>, <<"U+1EF4">>, <<"U+1EF6">>, <<"U+1EF8">>, <<"U+1EFA">>,
      <<"U+1EFC">>, <<"U+1EFE">>, <<"U+1F08">>, <<"U+1F09">>, <<"U+1F0A">>,
      <<"U+1F0B">>, <<"U+1F0C">>, <<"U+1F0D">>, <<"U+1F0E">>, <<"U+1F0F">>,
      <<"U+1F18">>, <<"U+1F19">>, <<"U+1F1A">>, <<"U+1F1B">>, <<"U+1F1C">>,
      <<"U+1F1D">>, <<"U+1F28">>, <<"U+1F29">>, <<"U+1F2A">>, <<"U+1F2B">>,
      <<"U+1F2C">>, <<"U+1F2D">>, <<"U+1F2E">>, <<"U+1F2F">>, <<"U+1F38">>,
      <<"U+1F39">>, <<"U+1F3A">>, <<"U+1F3B">>, <<"U+1F3C">>, <<"U+1F3D">>,
      <<"U+1F3E">>, <<"U+1F3F">>, <<"U+1F48">>, <<"U+1F49">>, <<"U+1F4A">>,
      <<"U+1F4B">>, <<"U+1F4C">>, <<"U+1F4D">>, <<"U+03A5", "U+0313">>,
      <<"U+1F59">>, <<"U+03A5", "U+0313", "U+0300">>, <<"U+1F5B">>,
      <<"U+03A5", "U+0313", "U+0301">>, <<"U+1F5D">>,
      <<"U+03A5", "U+0313", "U+0342">>, <<"U+1F5F">>, <<"U+1F68">>,
      <<"U+1F69">>, <<"U+1F6A">>, <<"U+1F6B">>, <<"U+1F6C">>, <<"U+1F6D">>,
      <<"U+1F6E">>, <<"U+1F6F">>, <<"U+1FBA">>, <<"U+1FBB">>, <<"U+1FC8">>,
      <<"U+1FC9">>, <<"U+1FCA">>, <<"U+1FCB">>, <<"U+1FDA">>, <<"U+1FDB">>,
      <<"U+1FF8">>, <<"U+1FF9">>, <<"U+1FEA">>, <<"U+1FEB">>, <<"U+1FFA">>,
      <<"U+1FFB">>, <<"U+1F08", "U+0399">>, <<"U+1F09", "U+0399">>,
      <<"U+1F0A", "U+0399">>, <<"U+1F0B", "U+0399">>, <<"U+1F0C", "U+0399">>,
      <<"U+1F0D", "U+0399">>, <<"U+1F0E", "U+0399">>, <<"U+1F0F", "U+0399">>,
      <<"U+1F08", "U+0399">>, <<"U+1F09", "U+0399">>, <<"U+1F0A", "U+0399">>,
      <<"U+1F0B", "U+0399">>, <<"U+1F0C", "U+0399">>, <<"U+1F0D", "U+0399">>,
      <<"U+1F0E", "U+0399">>, <<"U+1F0F", "U+0399">>, <<"U+1F28", "U+0399">>,
      <<"U+1F29", "U+0399">>, <<"U+1F2A", "U+0399">>, <<"U+1F2B", "U+0399">>,
      <<"U+1F2C", "U+0399">>, <<"U+1F2D", "U+0399">>, <<"U+1F2E", "U+0399">>,
      <<"U+1F2F", "U+0399">>, <<"U+1F28", "U+0399">>, <<"U+1F29", "U+0399">>,
      <<"U+1F2A", "U+0399">>, <<"U+1F2B", "U+0399">>, <<"U+1F2C", "U+0399">>,
      <<"U+1F2D", "U+0399">>, <<"U+1F2E", "U+0399">>, <<"U+1F2F", "U+0399">>,
      <<"U+1F68", "U+0399">>, <<"U+1F69", "U+0399">>, <<"U+1F6A", "U+0399">>,
      <<"U+1F6B", "U+0399">>, <<"U+1F6C", "U+0399">>, <<"U+1F6D", "U+0399">>,
      <<"U+1F6E", "U+0399">>, <<"U+1F6F", "U+0399">>, <<"U+1F68", "U+0399">>,
      <<"U+1F69", "U+0399">>, <<"U+1F6A", "U+0399">>, <<"U+1F6B", "U+0399">>,
      <<"U+1F6C", "U+0399">>, <<"U+1F6D", "U+0399">>, <<"U+1F6E", "U+0399">>,
      <<"U+1F6F", "U+0399">>, <<"U+1FB8">>, <<"U+1FB9">>,
      <<"U+1FBA", "U+0399">>, <<"U+0391", "U+0399">>, <<"U+0386", "U+0399">>,
      <<"U+0391", "U+0342">>, <<"U+0391", "U+0342", "U+0399">>,
      <<"U+0391", "U+0399">>, <<"U+0399">>, <<"U+1FCA", "U+0399">>,
      <<"U+0397", "U+0399">>, <<"U+0389", "U+0399">>, <<"U+0397", "U+0342">>,
      <<"U+0397", "U+0342", "U+0399">>, <<"U+0397", "U+0399">>, <<"U+1FD8">>,
      <<"U+1FD9">>, <<"U+0399", "U+0308", "U+0300">>,
      <<"U+0399", "U+0308", "U+0301">>, <<"U+0399", "U+0342">>,
      <<"U+0399", "U+0308", "U+0342">>, <<"U+1FE8">>, <<"U+1FE9">>,
      <<"U+03A5", "U+0308", "U+0300">>, <<"U+03A5", "U+0308", "U+0301">>,
      <<"U+03A1", "U+0313">>, <<"U+1FEC">>, <<"U+03A5", "U+0342">>,
      <<"U+03A5", "U+0308", "U+0342">>, <<"U+1FFA", "U+0399">>,
      <<"U+03A9", "U+0399">>, <<"U+038F", "U+0399">>, <<"U+03A9", "U+0342">>,
      <<"U+03A9", "U+0342", "U+0399">>, <<"U+03A9", "U+0399">>, <<"U+2132">>,
      <<"U+2160">>, <<"U+2161">>, <<"U+2162">>, <<"U+2163">>, <<"U+2164">>,
      <<"U+2165">>, <<"U+2166">>, <<"U+2167">>, <<"U+2168">>, <<"U+2169">>,
      <<"U+216A">>, <<"U+216B">>, <<"U+216C">>, <<"U+216D">>, <<"U+216E">>,
      <<"U+216F">>, <<"U+2183">>, <<"U+24B6">>, <<"U+24B7">>, <<"U+24B8">>,
      <<"U+24B9">>, <<"U+24BA">>, <<"U+24BB">>, <<"U+24BC">>, <<"U+24BD">>,
      <<"U+24BE">>, <<"U+24BF">>, <<"U+24C0">>, <<"U+24C1">>, <<"U+24C2">>,
      <<"U+24C3">>, <<"U+24C4">>, <<"U+24C5">>, <<"U+24C6">>, <<"U+24C7">>,
      <<"U+24C8">>, <<"U+24C9">>, <<"U+24CA">>, <<"U+24CB">>, <<"U+24CC">>,
      <<"U+24CD">>, <<"U+24CE">>, <<"U+24CF">>, <<"U+2C00">>, <<"U+2C01">>,
      <<"U+2C02">>, <<"U+2C03">>, <<"U+2C04">>, <<"U+2C05">>, <<"U+2C06">>,
      <<"U+2C07">>, <<"U+2C08">>, <<"U+2C09">>, <<"U+2C0A">>, <<"U+2C0B">>,
      <<"U+2C0C">>, <<"U+2C0D">>, <<"U+2C0E">>, <<"U+2C0F">>, <<"U+2C10">>,
      <<"U+2C11">>, <<"U+2C12">>, <<"U+2C13">>, <<"U+2C14">>, <<"U+2C15">>,
      <<"U+2C16">>, <<"U+2C17">>, <<"U+2C18">>, <<"U+2C19">>, <<"U+2C1A">>,
      <<"U+2C1B">>, <<"U+2C1C">>, <<"U+2C1D">>, <<"U+2C1E">>, <<"U+2C1F">>,
      <<"U+2C20">>, <<"U+2C21">>, <<"U+2C22">>, <<"U+2C23">>, <<"U+2C24">>,
      <<"U+2C25">>, <<"U+2C26">>, <<"U+2C27">>, <<"U+2C28">>, <<"U+2C29">>,
      <<"U+2C2A">>, <<"U+2C2B">>, <<"U+2C2C">>, <<"U+2C2D">>, <<"U+2C2E">>,
      <<"U+2C2F">>, <<"U+2C60">>, <<"U+023A">>, <<"U+023E">>, <<"U+2C67">>,
      <<"U+2C69">>, <<"U+2C6B">>, <<"U+2C72">>, <<"U+2C75">>, <<"U+2C80">>,
      <<"U+2C82">>, <<"U+2C84">>, <<"U+2C86">>, <<"U+2C88">>, <<"U+2C8A">>,
      <<"U+2C8C">>, <<"U+2C8E">>, <<"U+2C90">>, <<"U+2C92">>, <<"U+2C94">>,
      <<"U+2C96">>, <<"U+2C98">>, <<"U+2C9A">>, <<"U+2C9C">>, <<"U+2C9E">>,
      <<"U+2CA0">>, <<"U+2CA2">>, <<"U+2CA4">>, <<"U+2CA6">>, <<"U+2CA8">>,
      <<"U+2CAA">>, <<"U+2CAC">>, <<"U+2CAE">>, <<"U+2CB0">>, <<"U+2CB2">>,
      <<"U+2CB4">>, <<"U+2CB6">>, <<"U+2CB8">>, <<"U+2CBA">>, <<"U+2CBC">>,
      <<"U+2CBE">>, <<"U+2CC0">>, <<"U+2CC2">>, <<"U+2CC4">>, <<"U+2CC6">>,
      <<"U+2CC8">>, <<"U+2CCA">>, <<"U+2CCC">>, <<"U+2CCE">>, <<"U+2CD0">>,
      <<"U+2CD2">>, <<"U+2CD4">>, <<"U+2CD6">>, <<"U+2CD8">>, <<"U+2CDA">>,
      <<"U+2CDC">>, <<"U+2CDE">>, <<"U+2CE0">>, <<"U+2CE2">>, <<"U+2CEB">>,
      <<"U+2CED">>, <<"U+2CF2">>, <<"U+10A0">>, <<"U+10A1">>, <<"U+10A2">>,
      <<"U+10A3">>, <<"U+10A4">>, <<"U+10A5">>, <<"U+10A6">>, <<"U+10A7">>,
      <<"U+10A8">>, <<"U+10A9">>, <<"U+10AA">>, <<"U+10AB">>, <<"U+10AC">>,
      <<"U+10AD">>, <<"U+10AE">>, <<"U+10AF">>, <<"U+10B0">>, <<"U+10B1">>,
      <<"U+10B2">>, <<"U+10B3">>, <<"U+10B4">>, <<"U+10B5">>, <<"U+10B6">>,
      <<"U+10B7">>, <<"U+10B8">>, <<"U+10B9">>, <<"U+10BA">>, <<"U+10BB">>,
      <<"U+10BC">>, <<"U+10BD">>, <<"U+10BE">>, <<"U+10BF">>, <<"U+10C0">>,
      <<"U+10C1">>, <<"U+10C2">>, <<"U+10C3">>, <<"U+10C4">>, <<"U+10C5">>,
      <<"U+10C7">>, <<"U+10CD">>, <<"U+A640">>, <<"U+A642">>, <<"U+A644">>,
      <<"U+A646">>, <<"U+A648">>, <<"U+A64A">>, <<"U+A64C">>, <<"U+A64E">>,
      <<"U+A650">>, <<"U+A652">>, <<"U+A654">>, <<"U+A656">>, <<"U+A658">>,
      <<"U+A65A">>, <<"U+A65C">>, <<"U+A65E">>, <<"U+A660">>, <<"U+A662">>,
      <<"U+A664">>, <<"U+A666">>, <<"U+A668">>, <<"U+A66A">>, <<"U+A66C">>,
      <<"U+A680">>, <<"U+A682">>, <<"U+A684">>, <<"U+A686">>, <<"U+A688">>,
      <<"U+A68A">>, <<"U+A68C">>, <<"U+A68E">>, <<"U+A690">>, <<"U+A692">>,
      <<"U+A694">>, <<"U+A696">>, <<"U+A698">>, <<"U+A69A">>, <<"U+A722">>,
      <<"U+A724">>, <<"U+A726">>, <<"U+A728">>, <<"U+A72A">>, <<"U+A72C">>,
      <<"U+A72E">>, <<"U+A732">>, <<"U+A734">>, <<"U+A736">>, <<"U+A738">>,
      <<"U+A73A">>, <<"U+A73C">>, <<"U+A73E">>, <<"U+A740">>, <<"U+A742">>,
      <<"U+A744">>, <<"U+A746">>, <<"U+A748">>, <<"U+A74A">>, <<"U+A74C">>,
      <<"U+A74E">>, <<"U+A750">>, <<"U+A752">>, <<"U+A754">>, <<"U+A756">>,
      <<"U+A758">>, <<"U+A75A">>, <<"U+A75C">>, <<"U+A75E">>, <<"U+A760">>,
      <<"U+A762">>, <<"U+A764">>, <<"U+A766">>, <<"U+A768">>, <<"U+A76A">>,
      <<"U+A76C">>, <<"U+A76E">>, <<"U+A779">>, <<"U+A77B">>, <<"U+A77E">>,
      <<"U+A780">>, <<"U+A782">>, <<"U+A784">>, <<"U+A786">>, <<"U+A78B">>,
      <<"U+A790">>, <<"U+A792">>, <<"U+A7C4">>, <<"U+A796">>, <<"U+A798">>,
      <<"U+A79A">>, <<"U+A79C">>, <<"U+A79E">>, <<"U+A7A0">>, <<"U+A7A2">>,
      <<"U+A7A4">>, <<"U+A7A6">>, <<"U+A7A8">>, <<"U+A7B4">>, <<"U+A7B6">>,
      <<"U+A7B8">>, <<"U+A7BA">>, <<"U+A7BC">>, <<"U+A7BE">>, <<"U+A7C0">>,
      <<"U+A7C2">>, <<"U+A7C7">>, <<"U+A7C9">>, <<"U+A7D0">>, <<"U+A7D6">>,
      <<"U+A7D8">>, <<"U+A7F5">>, <<"U+A7B3">>, <<"U+13A0">>, <<"U+13A1">>,
      <<"U+13A2">>, <<"U+13A3">>, <<"U+13A4">>, <<"U+13A5">>, <<"U+13A6">>,
      <<"U+13A7">>, <<"U+13A8">>, <<"U+13A9">>, <<"U+13AA">>, <<"U+13AB">>,
      <<"U+13AC">>, <<"U+13AD">>, <<"U+13AE">>, <<"U+13AF">>, <<"U+13B0">>,
      <<"U+13B1">>, <<"U+13B2">>, <<"U+13B3">>, <<"U+13B4">>, <<"U+13B5">>,
      <<"U+13B6">>, <<"U+13B7">>, <<"U+13B8">>, <<"U+13B9">>, <<"U+13BA">>,
      <<"U+13BB">>, <<"U+13BC">>, <<"U+13BD">>, <<"U+13BE">>, <<"U+13BF">>,
      <<"U+13C0">>, <<"U+13C1">>, <<"U+13C2">>, <<"U+13C3">>, <<"U+13C4">>,
      <<"U+13C5">>, <<"U+13C6">>, <<"U+13C7">>, <<"U+13C8">>, <<"U+13C9">>,
      <<"U+13CA">>, <<"U+13CB">>, <<"U+13CC">>, <<"U+13CD">>, <<"U+13CE">>,
      <<"U+13CF">>, <<"U+13D0">>, <<"U+13D1">>, <<"U+13D2">>, <<"U+13D3">>,
      <<"U+13D4">>, <<"U+13D5">>, <<"U+13D6">>, <<"U+13D7">>, <<"U+13D8">>,
      <<"U+13D9">>, <<"U+13DA">>, <<"U+13DB">>, <<"U+13DC">>, <<"U+13DD">>,
      <<"U+13DE">>, <<"U+13DF">>, <<"U+13E0">>, <<"U+13E1">>, <<"U+13E2">>,
      <<"U+13E3">>, <<"U+13E4">>, <<"U+13E5">>, <<"U+13E6">>, <<"U+13E7">>,
      <<"U+13E8">>, <<"U+13E9">>, <<"U+13EA">>, <<"U+13EB">>, <<"U+13EC">>,
      <<"U+13ED">>, <<"U+13EE">>, <<"U+13EF">>, <<"F", "F">>, <<"F", "I">>,
      <<"F", "L">>, <<"F", "F", "I">>, <<"F", "F", "L">>, <<"S", "T">>,
      <<"S", "T">>, <<"U+0544", "U+0546">>, <<"U+0544", "U+0535">>,
      <<"U+0544", "U+053B">>, <<"U+054E", "U+0546">>, <<"U+0544", "U+053D">>,
      <<"U+FF21">>, <<"U+FF22">>, <<"U+FF23">>, <<"U+FF24">>, <<"U+FF25">>,
      <<"U+FF26">>, <<"U+FF27">>, <<"U+FF28">>, <<"U+FF29">>, <<"U+FF2A">>,
      <<"U+FF2B">>, <<"U+FF2C">>, <<"U+FF2D">>, <<"U+FF2E">>, <<"U+FF2F">>,
      <<"U+FF30">>, <<"U+FF31">>, <<"U+FF32">>, <<"U+FF33">>, <<"U+FF34">>,
      <<"U+FF35">>, <<"U+FF36">>, <<"U+FF37">>, <<"U+FF38">>, <<"U+FF39">>,
      <<"U+FF3A">>, <<"U+10400">>, <<"U+10401">>, <<"U+10402">>,
      <<"U+10403">>, <<"U+10404">>, <<"U+10405">>, <<"U+10406">>,
      <<"U+10407">>, <<"U+10408">>, <<"U+10409">>, <<"U+1040A">>,
      <<"U+1040B">>, <<"U+1040C">>, <<"U+1040D">>, <<"U+1040E">>,
      <<"U+1040F">>, <<"U+10410">>, <<"U+10411">>, <<"U+10412">>,
      <<"U+10413">>, <<"U+10414">>, <<"U+10415">>, <<"U+10416">>,
      <<"U+10417">>, <<"U+10418">>, <<"U+10419">>, <<"U+1041A">>,
      <<"U+1041B">>, <<"U+1041C">>, <<"U+1041D">>, <<"U+1041E">>,
      <<"U+1041F">>, <<"U+10420">>, <<"U+10421">>, <<"U+10422">>,
      <<"U+10423">>, <<"U+10424">>, <<"U+10425">>, <<"U+10426">>,
      <<"U+10427">>, <<"U+104B0">>, <<"U+104B1">>, <<"U+104B2">>,
      <<"U+104B3">>, <<"U+104B4">>, <<"U+104B5">>, <<"U+104B6">>,
      <<"U+104B7">>, <<"U+104B8">>, <<"U+104B9">>, <<"U+104BA">>,
      <<"U+104BB">>, <<"U+104BC">>, <<"U+104BD">>, <<"U+104BE">>,
      <<"U+104BF">>, <<"U+104C0">>, <<"U+104C1">>, <<"U+104C2">>,
      <<"U+104C3">>, <<"U+104C4">>, <<"U+104C5">>, <<"U+104C6">>,
      <<"U+104C7">>, <<"U+104C8">>, <<"U+104C9">>, <<"U+104CA">>,
      <<"U+104CB">>, <<"U+104CC">>, <<"U+104CD">>, <<"U+104CE">>,
      <<"U+104CF">>, <<"U+104D0">>, <<"U+104D1">>, <<"U+104D2">>,
      <<"U+104D3">>, <<"U+10570">>, <<"U+10571">>, <<"U+10572">>,
      <<"U+10573">>, <<"U+10574">>, <<"U+10575">>, <<"U+10576">>,
      <<"U+10577">>, <<"U+10578">>, <<"U+10579">>, <<"U+1057A">>,
      <<"U+1057C">>, <<"U+1057D">>, <<"U+1057E">>, <<"U+1057F">>,
      <<"U+10580">>, <<"U+10581">>, <<"U+10582">>, <<"U+10583">>,
      <<"U+10584">>, <<"U+10585">>, <<"U+10586">>, <<"U+10587">>,
      <<"U+10588">>, <<"U+10589">>, <<"U+1058A">>, <<"U+1058C">>,
      <<"U+1058D">>, <<"U+1058E">>, <<"U+1058F">>, <<"U+10590">>,
      <<"U+10591">>, <<"U+10592">>, <<"U+10594">>, <<"U+10595">>,
      <<"U+10C80">>, <<"U+10C81">>, <<"U+10C82">>, <<"U+10C83">>,
      <<"U+10C84">>, <<"U+10C85">>, <<"U+10C86">>, <<"U+10C87">>,
      <<"U+10C88">>, <<"U+10C89">>, <<"U+10C8A">>, <<"U+10C8B">>,
      <<"U+10C8C">>, <<"U+10C8D">>, <<"U+10C8E">>, <<"U+10C8F">>,
      <<"U+10C90">>, <<"U+10C91">>, <<"U+10C92">>, <<"U+10C93">>,
      <<"U+10C94">>, <<"U+10C95">>, <<"U+10C96">>, <<"U+10C97">>,
      <<"U+10C98">>, <<"U+10C99">>, <<"U+10C9A">>, <<"U+10C9B">>,
      <<"U+10C9C">>, <<"U+10C9D">>, <<"U+10C9E">>, <<"U+10C9F">>,
      <<"U+10CA0">>, <<"U+10CA1">>, <<"U+10CA2">>, <<"U+10CA3">>,
      <<"U+10CA4">>, <<"U+10CA5">>, <<"U+10CA6">>, <<"U+10CA7">>,
      <<"U+10CA8">>, <<"U+10CA9">>, <<"U+10CAA">>, <<"U+10CAB">>,
      <<"U+10CAC">>, <<"U+10CAD">>, <<"U+10CAE">>, <<"U+10CAF">>,
      <<"U+10CB0">>, <<"U+10CB1">>, <<"U+10CB2">>, <<"U+118A0">>,
      <<"U+118A1">>, <<"U+118A2">>, <<"U+118A3">>, <<"U+118A4">>,
      <<"U+118A5">>, <<"U+118A6">>, <<"U+118A7">>, <<"U+118A8">>,
      <<"U+118A9">>, <<"U+118AA">>, <<"U+118AB">>, <<"U+118AC">>,
      <<"U+118AD">>, <<"U+118AE">>, <<"U+118AF">>, <<"U+118B0">>,
      <<"U+118B1">>, <<"U+118B2">>, <<"U+118B3">>, <<"U+118B4">>,
      <<"U+118B5">>, <<"U+118B6">>, <<"U+118B7">>, <<"U+118B8">>,
      <<"U+118B9">>, <<"U+118BA">>, <<"U+118BB">>, <<"U+118BC">>,
      <<"U+118BD">>, <<"U+118BE">>, <<"U+118BF">>, <<"U+16E40">>,
      <<"U+16E41">>, <<"U+16E42">>, <<"U+16E43">>, <<"U+16E44">>,
      <<"U+16E45">>, <<"U+16E46">>, <<"U+16E47">>, <<"U+16E48">>,
      <<"U+16E49">>, <<"U+16E4A">>, <<"U+16E4B">>, <<"U+16E4C">>,
      <<"U+16E4D">>, <<"U+16E4E">>, <<"U+16E4F">>, <<"U+16E50">>,
      <<"U+16E51">>, <<"U+16E52">>, <<"U+16E53">>, <<"U+16E54">>,
      <<"U+16E55">>, <<"U+16E56">>, <<"U+16E57">>, <<"U+16E58">>,
      <<"U+16E59">>, <<"U+16E5A">>, <<"U+16E5B">>, <<"U+16E5C">>,
      <<"U+16E5D">>, <<"U+16E5E">>, <<"U+16E5F">>, <<"U+1E900">>,
      <<"U+1E901">>, <<"U+1E902">>, <<"U+1E903">>, <<"U+1E904">>,
      <<"U+1E905">>, <<"U+1E906">>, <<"U+1E907">>, <<"U+1E908">>,
      <<"U+1E909">>, <<"U+1E90A">>, <<"U+1E90B">>, <<"U+1E90C">>,
      <<"U+1E90D">>, <<"U+1E90E">>, <<"U+1E90F">>, <<"U+1E910">>,
      <<"U+1E911">>, <<"U+1E912">>, <<"U+1E913">>, <<"U+1E914">>,
      <<"U+1E915">>, <<"U+1E916">>, <<"U+1E917">>, <<"U+1E918">>,
      <<"U+1E919">>, <<"U+1E91A">>, <<"U+1E91B">>, <<"U+1E91C">>,
      <<"U+1E91D">>, <<"U+1E91E">>, <<"U+1E91F">>, <<"U+1E920">>,
      <<"U+1E921">>
    >>

\* str.upper() of every character it changes
UpperLetter ==
    [c \in {LowerLetters[i] : i \in 1..Len(LowerLetters)} |->
        UpperLetters[CHOOSE i \in 1..Len(LowerLetters) : LowerLetters[i] = c]]

\* str.upper() of one character
UpperChar(c) == IF c \in DOMAIN UpperLetter THEN UpperLetter[c] ELSE <<c>>

RECURSIVE LStrip(_)
LStrip(s) ==
    IF s = <<>> THEN s
    ELSE IF IsSpace(Head(s)) THEN LStrip(Tail(s)) ELSE s

RECURSIVE RStrip(_)
RStrip(s) ==
    IF s = <<>> THEN s
    ELSE IF IsSpace(s[Len(s)]) THEN RStrip(SubSeq(s, 1, Len(s) - 1)) ELSE s

\* str.lstrip() in the place of str.strip()
Strip_left_only(s) == LStrip(s)

\* str.strip()
Strip(s) == RStrip(LStrip(s))

\* str.upper()
RECURSIVE Upper(_)
Upper(s) == IF s = <<>> THEN <<>> ELSE UpperChar(Head(s)) \o Upper(Tail(s))

DigitChar(d) ==
    CASE d = 0 -> "0" [] d = 1 -> "1" [] d = 2 -> "2" [] d = 3 -> "3"
      [] d = 4 -> "4" [] d = 5 -> "5" [] d = 6 -> "6" [] d = 7 -> "7"
      [] d = 8 -> "8" [] d = 9 -> "9"

\* the decimal text of a natural number, as an f-string prints it
RECURSIVE Digits(_)
Digits(n) ==
    IF n < 10 THEN <<DigitChar(n)>>
    ELSE Append(Digits(n \div 10), DigitChar(n % 10))

\* the text of a sale_date inside an f-string: 'YYYY-MM-DD', or '0' when missing
DateText(d) ==
    IF d = 0 THEN <<"0">>
    ELSE Digits(d \div 10000) \o <<"-">>
         \o <<DigitChar((d \div 1000) % 10), DigitChar((d \div 100) % 10)>> \o <<"-">>
         \o <<DigitChar((d \div 10) % 10), DigitChar(d % 10)>>

(***************************************************************************)
(* Dates: ETLConfig.                                                       *)
(***************************************************************************)
IsLeap(y) == (y % 4 = 0 /\ y % 100 # 0) \/ y % 400 = 0

\* calendar.monthrange(year, month)[1]
DaysInMonth(y, m) ==
    IF m = 2 THEN (IF IsLeap(y) THEN 29 ELSE 28)
    ELSE IF m \in {4, 6, 9, 11} THEN 30 ELSE 31

Min(a, b) == IF a < b THEN a ELSE b

\* datetime - relativedelta(months=n), n >= 0: relativedelta keeps |months| <= 11
\* and carries the rest into years; the day is clipped to the target month
MinusMonths(dt, n) ==
    LET years == n \div 12
        months == n % 12
        y1 == dt.year - years
        m1 == dt.month - months
        year == IF m1 < 1 THEN y1 - 1 ELSE y1
        month == IF m1 < 1 THEN m1 + 12 ELSE m1
    IN  [year |-> year, month |-> month,
         day |-> Min(DaysInMonth(year, month), dt.day)]

\* strftime('%Y-%m-%d') and strftime('%Y.%m.%d')
Formatted(dt) == dt.year * 10000 + dt.month * 100 + dt.day

\* the cutoff without .replace(day=1)
get_retention_cutoff_date_same_day(cfg, now) ==
    MinusMonths(now, cfg.retention_window)

\* ETLConfig.get_retention_cutoff_date
get_retention_cutoff_date(cfg, now) ==
    LET cutoff_date == MinusMonths(now, cfg.retention_window)
    IN  [cutoff_date EXCEPT !.day = 1]

\* ETLConfig.get_retention_cutoff_formatted
get_retention_cutoff_formatted(cfg, now) ==
    Formatted(get_retention_cutoff_date(cfg, now))


(***************************************************************************)
(* Sale records and matching keys.                                         *)
(***************************************************************************)
\* Python truthiness of a string and of a number
TruthyStr(s) == s # <<>>
TruthyNum(n) == n # 0

\* the check of the key fields left out
HasKeyFields_unchecked(sale) == TRUE

\* `if address and sale_date and sale_price`
HasKeyFields(sale) ==
    TruthyStr(sale.address) /\ TruthyNum(sale.sale_date) /\ TruthyNum(sale.sale_price)

\* the address stripped and not upper-cased
address_clean_no_upper(address) == Strip(address)

\* str(address).strip().upper()
address_clean(address) == Upper(Strip(address))

\* f"{address_clean}|{sale_date}|{sale_price}"
unique_key(sale) ==
    address_clean(sale.address) \o <<"|">> \o DateText(sale.sale_date)
        \o <<"|">> \o Digits(sale.sale_price)

\* (address_clean, sale_date, sale_price) of a new sale
new_sale_key(sale) ==
    <<address_clean(sale.address), sale.sale_date, sale.sale_price>>

\* the fetched row compared by its address as stored
existing_key_raw(existing_sale) ==
    <<existing_sale.address, existing_sale.sale_date, existing_sale.sale_price>>

\* (existing_address_clean, existing_date, existing_price) of a fetched row
existing_key(existing_sale) ==
    <<address_clean(existing_sale.address), existing_sale.sale_date,
      existing_sale.sale_price>>

\* prepare_dataframe_for_supabase: the as_of_date column is added to every row
prepare_sales_for_supabase(sales, today_formatted) ==
    [i \in 1..Len(sales) |->
        [address |-> sales[i].address, sale_date |-> sales[i].sale_date,
         sale_price |-> sales[i].sale_price, as_of_date |-> today_formatted]]

(***************************************************************************)
(* The store: the requests the code sends to the sales_unagg table.        *)
(* A comparison filter on sale_date selects no row without a sale_date.    *)
(***************************************************************************)
\* the filter put on the as_of_date column
DeleteLt_as_of_date(table, cutoff_date) ==
    SelectSeq(table, LAMBDA r : ~(r.as_of_date < cutoff_date))

\* the filter with the comparison turned round
DeleteLt_gt(table, cutoff_date) ==
    SelectSeq(table, LAMBDA r : ~(r.sale_date # 0 /\ r.sale_date > cutoff_date))

\* .delete().lt("sale_date", cutoff_date): the table without the matched rows
DeleteLt(table, cutoff_date) ==
    SelectSeq(table, LAMBDA r : ~(r.sale_date # 0 /\ r.sale_date < cutoff_date))

\* the select with gt and lt in the place of gte and lte
RangeQuery_exclusive(table, lo, hi) ==
    LET hit == SelectSeq(table, LAMBDA r :
                   r.sale_date # 0 /\ r.sale_date > lo /\ r.sale_date < hi)
    IN  [i \in 1..Len(hit) |->
            [address |-> hit[i].address, sale_date |-> hit[i].sale_date,
             sale_price |-> hit[i].sale_price]]

\* the select without its two filters on sale_date
RangeQuery_unbounded(table, lo, hi) ==
    [i \in 1..Len(table) |->
        [address |-> table[i].address, sale_date |-> table[i].sale_date,
         sale_price |-> table[i].sale_price]]

\* .select("address,sale_date,sale_price").gte("sale_date", lo).lte("sale_date", hi)
RangeQuery(table, lo, hi) ==
    LET hit == SelectSeq(table, LAMBDA r :
                   r.sale_date # 0 /\ r.sale_date >= lo /\ r.sale_date <= hi)
    IN  [i \in 1..Len(hit) |->
            [address |-> hit[i].address, sale_date |-> hit[i].sale_date,
             sale_price |-> hit[i].sale_price]]

\* the delete request filtering on the address alone
DeleteEq_address_only(table, duplicate) ==
    SelectSeq(table, LAMBDA r : ~(r.address = duplicate.address))

\* .delete().eq("address", a).eq("sale_date", d).eq("sale_price", p)
DeleteEq(table, duplicate) ==
    SelectSeq(table, LAMBDA r :
        ~(r.address = duplicate.address /\ r.sale_date = duplicate.sale_date
          /\ r.sale_price = duplicate.sale_price))

(***************************************************************************)
(* SupabaseManager.delete_old_sales_data.  fails: the delete request       *)
(* raises; the exception is caught and 0 returned.                         *)
(***************************************************************************)
delete_old_sales_data(table, cfg, now, fails) ==
    LET cutoff_date == get_retention_cutoff_formatted(cfg, now)
        after == DeleteLt(table, cutoff_date)
    IN  IF fails
        THEN [table |-> table, result |-> 0, raised |-> TRUE]
        ELSE [table |-> after, result |-> Len(table) - Len(after), raised |-> FALSE]

(***************************************************************************)
(* SupabaseManager.deduplicate_new_sales_data.                             *)
(***************************************************************************)
\* the loop with the records without key fields skipped
RECURSIVE DedupLoop_skip_incomplete(_, _, _, _)
DedupLoop_skip_incomplete(new_sales_data, i, seen_sales, deduplicated) ==
    IF i > Len(new_sales_data) THEN deduplicated
    ELSE LET sale == new_sales_data[i]
         IN  IF HasKeyFields(sale) /\ unique_key(sale) \notin seen_sales
             THEN DedupLoop_skip_incomplete(new_sales_data, i + 1,
                                            seen_sales \cup {unique_key(sale)},
                                            Append(deduplicated, sale))
             ELSE DedupLoop_skip_incomplete(new_sales_data, i + 1, seen_sales,
                                            deduplicated)

RECURSIVE DedupLoop(_, _, _, _)
DedupLoop(new_sales_data, i, seen_sales, deduplicated) ==
    IF i > Len(new_sales_data) THEN deduplicated
    ELSE LET sale == new_sales_data[i]
         IN  IF HasKeyFields(sale)
             THEN IF unique_key(sale) \notin seen_sales
                  THEN DedupLoop(new_sales_data, i + 1,
                                 seen_sales \cup {unique_key(sale)},
                                 Append(deduplicated, sale))
                  ELSE DedupLoop(new_sales_data, i + 1, seen_sales, deduplicated)
             ELSE DedupLoop(new_sales_data, i + 1, seen_sales,
                            Append(deduplicated, sale))

Reverse(seq) == [i \in 1..Len(seq) |-> seq[Len(seq) + 1 - i]]

\* the last record of each key kept in the place of the first
deduplicate_keep_last(new_sales_data) ==
    IF new_sales_data = <<>> THEN <<>>
    ELSE Reverse(DedupLoop(Reverse(new_sales_data), 1, {}, <<>>))

deduplicate_new_sales_data(new_sales_data) ==
    IF new_sales_data = <<>> THEN <<>>
    ELSE DedupLoop(new_sales_data, 1, {}, <<>>)

(***************************************************************************)
(* SupabaseManager.delete_existing_duplicate_sales.                        *)
(***************************************************************************)
\* Step 1 with a key for every new sale, complete or not
new_sale_keys_unchecked(data) ==
    {new_sale_key(data[i]) : i \in 1..Len(data)}

\* Step 1: the keys of the new sales that have all three key fields
new_sale_keys(data) ==
    {new_sale_key(data[i]) : i \in {j \in 1..Len(data) : HasKeyFields(data[j])}}

\* Step 2: dates = [sale.get('sale_date') for sale in data if sale.get('sale_date')]
sale_dates(data) ==
    {data[i].sale_date : i \in {j \in 1..Len(data) : TruthyNum(data[j].sale_date)}}

min_date(data) == CHOOSE d \in sale_dates(data) : \A e \in sale_dates(data) : d <= e
max_date(data) == CHOOSE d \in sale_dates(data) : \A e \in sale_dates(data) : d >= e

\* Step 3 stopping at the first match
duplicates_to_delete_first_only(existing, keys) ==
    LET all == SelectSeq(existing, LAMBDA e :
                   HasKeyFields(e) /\ existing_key(e) \in keys)
    IN  IF all = <<>> THEN <<>> ELSE <<Head(all)>>

\* Step 3 with the price left out of the comparison
duplicates_to_delete_ignore_price(existing, keys) ==
    SelectSeq(existing, LAMBDA e :
        HasKeyFields(e)
        /\ \E k \in keys : k[1] = existing_key(e)[1] /\ k[2] = existing_key(e)[2])

\* Step 3: the fetched rows whose normalized key is one of the new keys
duplicates_to_delete(existing, keys) ==
    SelectSeq(existing, LAMBDA e : HasKeyFields(e) /\ existing_key(e) \in keys)

\* the number of slices range(0, n, size) walks through
NumBatches(n, size) == (n \div size) + (IF n % size > 0 THEN 1 ELSE 0)

\* Step 4: one delete request per duplicate; request number failAt raises
RECURSIVE DeleteLoop(_, _, _, _, _)
DeleteLoop(table, duplicates, i, deleted_count, failAt) ==
    IF i > Len(duplicates)
    THEN [table |-> table, deleted_count |-> deleted_count, raised |-> FALSE,
          requests |-> i - 1]
    ELSE IF i = failAt
    THEN [table |-> table, deleted_count |-> deleted_count, raised |-> TRUE,
          requests |-> i]
    ELSE LET after == DeleteEq(table, duplicates[i])
         IN  DeleteLoop(after, duplicates, i + 1,
                        deleted_count + (Len(table) - Len(after)), failAt)

\* the resolver asking the store once for every new sale
delete_existing_duplicate_sales_query_per_sale(table, data, fault) ==
    LET none == [table |-> table, result |-> 0, raised |-> FALSE,
                 queries |-> 0, deletes |-> 0, existing |-> <<>>,
                 range |-> <<>>, batches |-> 0]
    IN  IF data = <<>> THEN none
        ELSE IF new_sale_keys(data) = {} THEN none
        ELSE IF sale_dates(data) = {} THEN none
        ELSE IF fault = 1
        THEN [none EXCEPT !.raised = TRUE, !.queries = 1,
                          !.range = <<min_date(data), max_date(data)>>]
        ELSE LET existing == RangeQuery(table, min_date(data), max_date(data))
                 dups == duplicates_to_delete(existing, new_sale_keys(data))
                 loop == DeleteLoop(table, dups, 1, 0, fault - 1)
             IN  [table |-> loop.table,
                  result |-> IF loop.raised THEN 0 ELSE loop.deleted_count,
                  raised |-> loop.raised, queries |-> Len(data),
                  deletes |-> loop.requests, existing |-> existing,
                  range |-> <<min_date(data), max_date(data)>>,
                  batches |-> NumBatches(loop.requests, delete_batch_size)]

\* the resolver returning the count of the deletes done before the exception
delete_existing_duplicate_sales_partial_count(table, data, fault) ==
    LET none == [table |-> table, result |-> 0, raised |-> FALSE,
                 queries |-> 0, deletes |-> 0, existing |-> <<>>,
                 range |-> <<>>, batches |-> 0]
    IN  IF data = <<>> THEN none
        ELSE IF new_sale_keys(data) = {} THEN none
        ELSE IF sale_dates(data) = {} THEN none
        ELSE IF fault = 1
        THEN [none EXCEPT !.raised = TRUE, !.queries = 1,
                          !.range = <<min_date(data), max_date(data)>>]
        ELSE LET existing == RangeQuery(table, min_date(data), max_date(data))
                 dups == duplicates_to_delete(existing, new_sale_keys(data))
                 loop == DeleteLoop(table, dups, 1, 0, fault - 1)
             IN  [table |-> loop.table,
                  result |-> loop.deleted_count,
                  raised |-> loop.raised, queries |-> 1,
                  deletes |-> loop.requests, existing |-> existing,
                  range |-> <<min_date(data), max_date(data)>>,
                  batches |-> NumBatches(loop.requests, delete_batch_size)]

\* fault = 0: no request raises; 1: the range query raises;
\* 1 + j: the j-th delete request raises.  Any exception is caught: return 0.
delete_existing_duplicate_sales(table, data, fault) ==
    LET none == [table |-> table, result |-> 0, raised |-> FALSE,
                 queries |-> 0, deletes |-> 0, existing |-> <<>>,
                 range |-> <<>>, batches |-> 0]
    IN  IF data = <<>> THEN none
        ELSE IF new_sale_keys(data) = {} THEN none
        ELSE IF sale_dates(data) = {} THEN none
        ELSE IF fault = 1
        THEN [none EXCEPT !.raised = TRUE, !.queries = 1,
                          !.range = <<min_date(data), max_date(data)>>]
        ELSE LET existing == RangeQuery(table, min_date(data), max_date(data))
                 dups == duplicates_to_delete(existing, new_sale_keys(data))
                 loop == DeleteLoop(table, dups, 1, 0, fault - 1)
             IN  [table |-> loop.table,
                  result |-> IF loop.raised THEN 0 ELSE loop.deleted_count,
                  raised |-> loop.raised, queries |-> 1,
                  deletes |-> loop.requests, existing |-> existing,
                  range |-> <<min_date(data), max_date(data)>>,
                  batches |-> NumBatches(loop.requests, delete_batch_size)]

(***************************************************************************)
(* SupabaseManager.insert_data_in_batches.  Insert request number failAt   *)
(* raises; nothing catches it.                                             *)
(***************************************************************************)
RECURSIVE InsertLoop(_, _, _, _, _, _)
InsertLoop(table, data, i, size, request, failAt) ==
    IF i >= Len(data)
    THEN [table |-> table, raised |-> FALSE, requests |-> request - 1,
          inserted |-> Len(data), chunks |-> <<>>]
    ELSE LET batch == SubSeq(data, i + 1, Min(i + size, Len(data)))
         IN  IF request = failAt
             THEN [table |-> table, raised |-> TRUE, requests |-> request,
                   inserted |-> i, chunks |-> <<batch>>]
             ELSE LET rest == InsertLoop(table \o batch, data, i + size, size,
                                         request + 1, failAt)
                  IN  [rest EXCEPT !.chunks = <<batch>> \o @]

\* the insert sending the whole list in one request
insert_data_in_batches_one_request(table, data, cfg, failAt) ==
    IF data = <<>>
    THEN [table |-> table, raised |-> FALSE, requests |-> 0, inserted |-> 0,
          chunks |-> <<>>]
    ELSE InsertLoop(table, data, 0, Len(data), 1, failAt)

insert_data_in_batches(table, data, cfg, failAt) ==
    IF data = <<>>
    THEN [table |-> table, raised |-> FALSE, requests |-> 0, inserted |-> 0,
          chunks |-> <<>>]
    ELSE InsertLoop(table, data, 0, cfg.batch_size, 1, failAt)

(***************************************************************************)
(* The inputs of the exploration.                                          *)
(***************************************************************************)
\* "a b" written in lower case with surrounding blanks, and in its clean form
AddrRaw == <<" ", "a", " ", "b", " ">>
AddrClean == <<"A", " ", "B">>
AddrOther == <<"b">>

Sale(a, d, p) == [address |-> a, sale_date |-> d, sale_price |-> p]

Sales ==
    { Sale(AddrRaw,   20230101, 300000),    \* one transaction ...
      Sale(AddrClean, 20230101, 300000),    \* ... recorded a second way
      Sale(AddrOther, 20230102, 250000),    \* another transaction
      Sale(AddrClean, 20230101, 250000),    \* the first one at another price
      Sale(AddrClean, 20220531, 300000),    \* the day before the cutoff of June 2025
      Sale(AddrClean, 20220601, 300000),    \* the cutoff day of June 2025
      Sale(AddrClean, 20230101, 0),         \* no price
      Sale(<<>>,      20230102, 250000),    \* no address
      Sale(AddrClean, 0,        300000) }   \* no sale_date

Batches == UNION {[1..n -> Sales] : n \in 0..MaxBatch}

\* every batch with the number of rows it asks to insert
BatchRows ==
    { [batch |-> b, rows |-> Len(deduplicate_new_sales_data(b))] :
        b \in Batches }

Todays == { [year |-> 2025, month |-> 6, day |-> 15] }

\* nothing sent yet: range query, its bounds, delete requests, the batches
\* of the delete loop, the chunks of the insert requests
NoRequests == [queries |-> 0, range |-> <<>>, deletes |-> 0, batches |-> 0,
               inserts |-> <<>>]

NoSummary == [printed |-> FALSE, old |-> 0, internal |-> 0, existing |-> 0,
              inserted |-> 0, net_change |-> 0]

(***************************************************************************)
(* The full refresh of listings_unagg: clear_table, then                   *)
(* insert_data_in_batches.  A row of the table is a listing with the       *)
(* as_of_date of the run that inserted it; its id is the primary key the   *)
(* store generates, never the nil uuid.                                    *)
(***************************************************************************)
\* .delete().neq("as_of_date", today)
DeleteNeqAsOfDate(table, today_formatted) ==
    SelectSeq(table, LAMBDA r : ~(r.as_of_date # today_formatted))

\* .delete().eq("as_of_date", today)
DeleteEqAsOfDate(table, today_formatted) ==
    SelectSeq(table, LAMBDA r : ~(r.as_of_date = today_formatted))

\* .delete().neq("id", "00000000-0000-0000-0000-000000000000"): every row
DeleteNeqNilId(table) == SelectSeq(table, LAMBDA r : FALSE)

\* the clearing without the fallback of Strategy 2
clear_large_table_in_batches_no_fallback(table, today_formatted, fault) ==
    LET older_gone == DeleteNeqAsOfDate(table, today_formatted)
        all_gone == DeleteEqAsOfDate(older_gone, today_formatted)
    IN  CASE fault = 0 ->
               [table |-> all_gone, raised |-> FALSE, failed |-> {}]
          [] fault \in {1, 3} ->
               [table |-> table, raised |-> FALSE, failed |-> {"date_clear"}]
          [] fault \in {2, 4} ->
               [table |-> older_gone, raised |-> FALSE,
                failed |-> {"date_clear"}]

\* _clear_large_table_in_batches.  fault = 0: no request raises; 1: the first
\* date-based delete raises; 2: the second one raises; 3 and 4: as 1 and 2,
\* and the direct delete of the fallback raises as well.  No exception leaves
\* the function.
clear_large_table_in_batches(table, today_formatted, fault) ==
    LET older_gone == DeleteNeqAsOfDate(table, today_formatted)
        all_gone == DeleteEqAsOfDate(older_gone, today_formatted)
    IN  CASE fault = 0 ->
               [table |-> all_gone, raised |-> FALSE, failed |-> {}]
          [] fault = 1 ->
               [table |-> DeleteNeqNilId(table), raised |-> FALSE,
                failed |-> {"date_clear"}]
          [] fault = 2 ->
               [table |-> DeleteNeqNilId(older_gone), raised |-> FALSE,
                failed |-> {"date_clear"}]
          [] fault = 3 ->
               [table |-> table, raised |-> FALSE,
                failed |-> {"date_clear", "direct_clear"}]
          [] fault = 4 ->
               [table |-> older_gone, raised |-> FALSE,
                failed |-> {"date_clear", "direct_clear"}]

\* clear_table for table_name "listings_unagg", no condition given
clear_table(table, today_formatted, fault) ==
    clear_large_table_in_batches(table, today_formatted, fault)

\* prepare_listings_for_supabase: the as_of_date column is added to every row
prepare_listings_for_supabase(listings, today_formatted) ==
    [i \in 1..Len(listings) |->
        [address |-> listings[i].address,
         current_list_price |-> listings[i].current_list_price,
         as_of_date |-> today_formatted]]

Listing(a, p) == [address |-> a, current_list_price |-> p]

Listings == { Listing(AddrClean, 300000), Listing(AddrOther, 250000) }

\* the listings a run of the sales specifications is given: none or one
CycleListings == {<<>>} \cup {<<l>> : l \in Listings}

\* the requests of the clearing that raise in the sales specifications: none
CycleClearFaults == {0}

(***************************************************************************)
(* SupabaseManager.upload_all_data: the start of the call up to the sales  *)
(* part is one action, the sales part one action per step.                 *)
(***************************************************************************)
\* the steps with the insert moved before the resolver
NextStage_insert_first(stage) ==
    CASE stage = "start" -> "prune"
      [] stage = "prune" -> "dedup"
      [] stage = "dedup" -> "insert"
      [] stage = "insert" -> "resolve"
      [] stage = "resolve" -> "summarize"
      [] stage = "summarize" -> "done"

\* the order of the steps in upload_all_data
NextStage(stage) ==
    CASE stage = "start" -> "prune"
      [] stage = "prune" -> "dedup"
      [] stage = "dedup" -> "resolve"
      [] stage = "resolve" -> "insert"
      [] stage = "insert" -> "summarize"
      [] stage = "summarize" -> "done"

\* total_deleted = old_deleted + existing_duplicates_deleted
total_deleted_old_only(old, existing) == old

total_deleted(old, existing) == old + existing

\* total_inserted = len(deduplicated_sales)
total_inserted(deduplicated) == Len(deduplicated)

\* Net change: total_inserted - total_deleted
NetChange(inserted, deleted) == inserted - deleted

Init ==
    /\ config = [retention_window |-> retention_window, batch_size |-> batch_size]
    /\ today = [year |-> 2025, month |-> 6, day |-> 15]
    /\ sales_unagg = <<>>
    /\ pc = "idle"
    /\ supabase_sales = <<>>
    /\ deduplicated_sales = <<>>
    /\ existing_sales = <<>>
    /\ old_deleted = 0
    /\ internal_duplicates_removed = 0
    /\ existing_duplicates_deleted = 0
    /\ summary = NoSummary
    /\ failed = {}
    /\ stages = <<>>
    /\ store0 = <<>>
    /\ store_in = <<>>
    /\ n_inserted = 0
    /\ runs = 0
    /\ all_ok = TRUE
    /\ uploads = <<>>
    /\ requests = NoRequests
    /\ listings_unagg = <<>>
    /\ supabase_listings = <<>>

\* upload_all_data from its call to the sales part: the four frames are
\* prepared, hex_summary and county_summary are refreshed, listings_unagg is
\* cleared and refilled.  early: a request of the hex or county refresh
\* raises; fault: the requests of the clearing that raise; failAt: the insert
\* request of the listings that raises.  An exception of the refreshes leaves
\* upload_all_data before the sales part: the call is over, its frames are
\* gone.
BeginUpload(now, sales, listings, early, fault, failAt) ==
    LET c == clear_table(listings_unagg, Formatted(now), fault)
        i == insert_data_in_batches(c.table, listings, config, failAt)
    IN  /\ early => (fault = 0 /\ failAt = 0)
        /\ failAt = 0 \/ i.raised
        /\ today' = now
        /\ supabase_sales' = IF early \/ i.raised THEN <<>> ELSE sales
        /\ supabase_listings' = IF early \/ i.raised THEN <<>> ELSE listings
        /\ listings_unagg' = IF early THEN listings_unagg ELSE i.table
        /\ failed' = IF early THEN {"summary_refresh"}
                     ELSE c.failed \cup
                          (IF i.raised THEN {"insert_listings"} ELSE {})
        /\ pc' = IF early \/ i.raised THEN "aborted_refresh"
                 ELSE NextStage("start")
        /\ deduplicated_sales' = <<>>
        /\ existing_sales' = <<>>
        /\ old_deleted' = 0
        /\ internal_duplicates_removed' = 0
        /\ existing_duplicates_deleted' = 0
        /\ summary' = NoSummary
        /\ stages' = <<>>
        /\ store0' = sales_unagg
        /\ store_in' = sales_unagg
        /\ n_inserted' = 0
        /\ requests' = NoRequests
        /\ UNCHANGED <<uploads, config, sales_unagg, all_ok>>

\* a run of the pipeline calls upload_all_data with its frames
StartCycle ==
    /\ pc = "idle"
    /\ runs < MaxRuns
    /\ \E now \in Todays, sales \in BatchRows :
        /\ Formatted(now) >= Formatted(today)
        /\ Len(sales_unagg) + sales.rows <= MaxStore
        /\ \E listings \in CycleListings, early \in BOOLEAN,
              fault \in CycleClearFaults, failAt \in 0..1 :
            BeginUpload(now,
                        prepare_sales_for_supabase(sales.batch, Formatted(now)),
                        prepare_listings_for_supabase(listings, Formatted(now)),
                        early, fault, failAt)
    /\ runs' = runs + 1

\* Step 1 with the exception of the delete request leaving upload_all_data
DeleteOldSalesData_propagating ==
    /\ pc = "prune"
    /\ \E fails \in BOOLEAN :
        LET r == delete_old_sales_data(sales_unagg, config, today, fails)
        IN  /\ sales_unagg' = r.table
            /\ old_deleted' = r.result
            /\ failed' = IF r.raised THEN failed \cup {"prune"} ELSE failed
            /\ all_ok' = (all_ok /\ ~r.raised)
            /\ pc' = IF r.raised THEN "aborted" ELSE NextStage(pc)
    /\ stages' = Append(stages, pc)
    /\ store_in' = sales_unagg
    /\ UNCHANGED <<uploads, listings_unagg, supabase_listings,
                   config, today, supabase_sales, deduplicated_sales,
                   existing_sales, internal_duplicates_removed,
                   existing_duplicates_deleted, summary, store0, n_inserted, runs,
                   requests>>

\* Step 1: old_deleted = self.delete_old_sales_data()
DeleteOldSalesData ==
    /\ pc = "prune"
    /\ \E fails \in BOOLEAN :
        LET r == delete_old_sales_data(sales_unagg, config, today, fails)
        IN  /\ sales_unagg' = r.table
            /\ old_deleted' = r.result
            /\ failed' = IF r.raised THEN failed \cup {"prune"} ELSE failed
            /\ all_ok' = (all_ok /\ ~r.raised)
    /\ pc' = NextStage(pc)
    /\ stages' = Append(stages, pc)
    /\ store_in' = sales_unagg
    /\ UNCHANGED <<uploads, listings_unagg, supabase_listings,
                   config, today, supabase_sales, deduplicated_sales,
                   existing_sales, internal_duplicates_removed,
                   existing_duplicates_deleted, summary, store0, n_inserted, runs,
                   requests>>

\* Step 2: deduplicated_sales = self.deduplicate_new_sales_data(supabase_sales)
DeduplicateNewSalesData ==
    /\ pc = "dedup"
    /\ deduplicated_sales' = deduplicate_new_sales_data(supabase_sales)
    /\ internal_duplicates_removed' = Len(supabase_sales) - Len(deduplicated_sales')
    /\ pc' = NextStage(pc)
    /\ stages' = Append(stages, pc)
    /\ store_in' = sales_unagg
    /\ UNCHANGED <<uploads, listings_unagg, supabase_listings,
                   config, today, sales_unagg, supabase_sales, existing_sales,
                   old_deleted, existing_duplicates_deleted, summary, failed,
                   store0, n_inserted, runs, all_ok, requests>>

\* Step 3 with the exception of a resolver request leaving upload_all_data
DeleteExistingDuplicateSales_propagating ==
    /\ pc = "resolve"
    /\ \E fault \in 0..(1 + Len(sales_unagg)) :
        LET r == delete_existing_duplicate_sales(sales_unagg, deduplicated_sales, fault)
        IN  /\ fault = 0 \/ r.raised
            /\ sales_unagg' = r.table
            /\ existing_duplicates_deleted' = r.result
            /\ existing_sales' = r.existing
            /\ requests' = [requests EXCEPT !.queries = r.queries,
                                            !.range = r.range,
                                            !.deletes = r.deletes,
                                            !.batches = r.batches]
            /\ failed' = IF r.raised THEN failed \cup {"resolve"} ELSE failed
            /\ all_ok' = (all_ok /\ ~r.raised)
            /\ pc' = IF r.raised THEN "aborted" ELSE NextStage(pc)
    /\ stages' = Append(stages, pc)
    /\ store_in' = sales_unagg
    /\ UNCHANGED <<uploads, listings_unagg, supabase_listings,
                   config, today, supabase_sales, deduplicated_sales,
                   old_deleted, internal_duplicates_removed, summary, store0,
                   n_inserted, runs>>

\* Step 3: existing_duplicates_deleted = self.delete_existing_duplicate_sales(...)
DeleteExistingDuplicateSales ==
    /\ pc = "resolve"
    /\ \E fault \in 0..(1 + Len(sales_unagg)) :
        LET r == delete_existing_duplicate_sales(sales_unagg, deduplicated_sales, fault)
        IN  /\ fault = 0 \/ r.raised
            /\ sales_unagg' = r.table
            /\ existing_duplicates_deleted' = r.result
            /\ existing_sales' = r.existing
            /\ requests' = [requests EXCEPT !.queries = r.queries,
                                            !.range = r.range,
                                            !.deletes = r.deletes,
                                            !.batches = r.batches]
            /\ failed' = IF r.raised THEN failed \cup {"resolve"} ELSE failed
            /\ all_ok' = (all_ok /\ ~r.raised)
    /\ pc' = NextStage(pc)
    /\ stages' = Append(stages, pc)
    /\ store_in' = sales_unagg
    /\ UNCHANGED <<uploads, listings_unagg, supabase_listings,
                   config, today, supabase_sales, deduplicated_sales, old_deleted,
                   internal_duplicates_removed, summary, store0, n_inserted, runs>>

\* Step 4: self.insert_data_in_batches("sales_unagg", deduplicated_sales, ...)
InsertDataInBatches ==
    /\ pc = "insert"
    /\ \E failAt \in 0..NumBatches(Len(deduplicated_sales), config.batch_size) :
        LET r == insert_data_in_batches(sales_unagg, deduplicated_sales, config, failAt)
        IN  /\ failAt = 0 \/ r.raised
            /\ sales_unagg' = r.table
            /\ n_inserted' = r.inserted
            /\ requests' = [requests EXCEPT !.inserts = r.chunks]
            /\ failed' = IF r.raised THEN failed \cup {"insert"} ELSE failed
            /\ all_ok' = (all_ok /\ ~r.raised)
            /\ pc' = IF r.raised THEN "aborted" ELSE NextStage(pc)
    /\ stages' = Append(stages, pc)
    /\ store_in' = sales_unagg
    /\ UNCHANGED <<uploads, listings_unagg, supabase_listings,
                   config, today, supabase_sales, deduplicated_sales,
                   existing_sales, old_deleted, internal_duplicates_removed,
                   existing_duplicates_deleted, summary, store0, runs>>

\* Summary: the printed report
Summarize ==
    /\ pc = "summarize"
    /\ summary' = [printed |-> TRUE, old |-> old_deleted,
                   internal |-> internal_duplicates_removed,
                   existing |-> existing_duplicates_deleted,
                   inserted |-> total_inserted(deduplicated_sales),
                   net_change |->
                       NetChange(total_inserted(deduplicated_sales),
                                 total_deleted(old_deleted,
                                               existing_duplicates_deleted))]
    /\ pc' = NextStage(pc)
    /\ stages' = Append(stages, pc)
    /\ store_in' = sales_unagg
    /\ UNCHANGED <<uploads, listings_unagg, supabase_listings,
                   config, today, sales_unagg, supabase_sales, deduplicated_sales,
                   existing_sales, old_deleted, internal_duplicates_removed,
                   existing_duplicates_deleted, failed, store0, n_inserted, runs,
                   all_ok, requests>>

\* upload_all_data returns, or the exception of a refresh or of a failed
\* insert leaves it:
\* the run is over and its locals are gone
Return ==
    /\ pc \in {"done", "aborted", "aborted_refresh"}
    /\ pc' = "idle"
    /\ supabase_sales' = <<>>
    /\ supabase_listings' = <<>>
    /\ deduplicated_sales' = <<>>
    /\ existing_sales' = <<>>
    /\ old_deleted' = 0
    /\ internal_duplicates_removed' = 0
    /\ existing_duplicates_deleted' = 0
    /\ summary' = NoSummary
    /\ failed' = {}
    /\ stages' = <<>>
    /\ store0' = <<>>
    /\ store_in' = <<>>
    /\ n_inserted' = 0
    /\ requests' = NoRequests
    /\ UNCHANGED <<uploads, listings_unagg, config, today, sales_unagg, runs,
                   all_ok>>

Next ==
    \/ StartCycle
    \/ DeleteOldSalesData
    \/ DeduplicateNewSalesData
    \/ DeleteExistingDuplicateSales
    \/ InsertDataInBatches
    \/ Summarize
    \/ Return

Spec == Init /\ [][Next]_vars

(***************************************************************************)
(* Vocabulary of the properties, stated without the operators above.       *)
(***************************************************************************)
\* a whitespace character
IsBlank(c) == c \in Whitespace

\* the capital form of a character: one character, or two or three
Capital(c) == IF c \in DOMAIN UpperLetter THEN UpperLetter[c] ELSE <<c>>

\* the characters of a in capitals, one after the other
RECURSIVE InCapitals(_)
InCapitals(a) ==
    IF a = <<>> THEN <<>>
    ELSE InCapitals(SubSeq(a, 1, Len(a) - 1)) \o Capital(a[Len(a)])

\* the address without its surrounding blanks, in capitals
Normalized(a) ==
    LET solid == {i \in 1..Len(a) : ~IsBlank(a[i])}
        lo == CHOOSE i \in solid : \A j \in solid : i <= j
        hi == CHOOSE i \in solid : \A j \in solid : i >= j
    IN  IF solid = {} THEN <<>>
        ELSE InCapitals([k \in 1..(hi - lo + 1) |-> a[lo + k - 1]])

Complete(r) == r.address # <<>> /\ r.sale_date # 0 /\ r.sale_price # 0

MatchingKey(r) == <<Normalized(r.address), r.sale_date, r.sale_price>>

\* the records of seq at the positions in keep, in order
SubseqAt(seq, keep) ==
    [k \in 1..Cardinality(keep) |->
        seq[CHOOSE i \in keep : Cardinality({j \in keep : j <= i}) = k]]

Positions(seq, P(_)) == {i \in 1..Len(seq) : P(seq[i])}

\* the complete records that are the first of their key, and all incomplete ones
FirstOrIncomplete(seq) ==
    {i \in 1..Len(seq) :
        Complete(seq[i]) =>
            \A j \in 1..(i - 1) :
                Complete(seq[j]) => MatchingKey(seq[j]) # MatchingKey(seq[i])}

CompleteKeys(seq) == {MatchingKey(seq[i]) : i \in Positions(seq, Complete)}

\* day 1 of the month that lies n months before the month of dt
MonthStartBefore(dt, n) ==
    LET index == dt.year * 12 + (dt.month - 1) - n
    IN  (index \div 12) * 10000 + ((index % 12) + 1) * 100 + 1

Cutoff == MonthStartBefore(today, config.retention_window)

Older(r) == r.sale_date # 0 /\ r.sale_date < Cutoff

StageOrder == <<"prune", "dedup", "resolve", "insert", "summarize">>

Ran(stage) == \E i \in 1..Len(stages) : stages[i] = stage

LastStage == IF stages = <<>> THEN "none" ELSE stages[Len(stages)]

AllOf(seq, P(_)) == \A i \in 1..Len(seq) : P(seq[i])

Incomplete(r) == ~Complete(r)

(***************************************************************************)
(* Properties.                                                             *)
(***************************************************************************)
\* C1 (INV-1): from an empty store, at the end of a cycle, when no store
\* operation has failed in any cycle so far, no two persisted records with
\* complete key fields share a matching key.
C1_NoSharedKey ==
    (pc = "done" /\ all_ok) =>
        \A i, j \in 1..Len(sales_unagg) :
            (i < j /\ Complete(sales_unagg[i]) /\ Complete(sales_unagg[j]))
                => MatchingKey(sales_unagg[i]) # MatchingKey(sales_unagg[j])

\* a second cycle ended after its batch had met a persisted record of the same
\* key written with another address text
C1_Witness ==
    /\ pc = "done" /\ all_ok /\ runs = 2
    /\ existing_duplicates_deleted > 0
    /\ Len(sales_unagg) >= 2
    /\ \E i \in 1..Len(store0), k \in 1..Len(supabase_sales) :
        /\ Complete(store0[i]) /\ Complete(supabase_sales[k])
        /\ MatchingKey(store0[i]) = MatchingKey(supabase_sales[k])
        /\ store0[i].address # supabase_sales[k].address

\* C2 (INV-2), as claimed: at the end of every cycle whose prune succeeds, for
\* any incoming batch, no persisted record is dated before the cutoff.
C2_NoOlderRecord_AnyBatch ==
    (pc = "done" /\ "prune" \notin failed) => AllOf(sales_unagg, LAMBDA r : ~Older(r))

\* C2 (INV-2), amended: at the end of every cycle whose prune succeeds no record
\* that was persisted before the cycle is dated before the cutoff; the rows the
\* cycle inserted are not filtered, so the store holds a record older than the
\* cutoff only if the incoming batch held one.
C2_NoOlderRecord_Persisted ==
    (pc \in {"done", "aborted"} /\ "prune" \notin failed) =>
        /\ n_inserted <= Len(sales_unagg)
        /\ \A i \in 1..(Len(sales_unagg) - n_inserted) : ~Older(sales_unagg[i])
        /\ AllOf(supabase_sales, LAMBDA r : ~Older(r))
              => AllOf(sales_unagg, LAMBDA r : ~Older(r))

\* a cycle pruned an older persisted record and its batch brought an older one
C2_Witness ==
    /\ pc = "done" /\ "prune" \notin failed
    /\ old_deleted > 0
    /\ \E i \in 1..Len(store0) : Older(store0[i])
    /\ \E k \in 1..Len(supabase_sales) : Older(supabase_sales[k])

\* C3: for a batch of complete-key records, a cycle without a failing store
\* operation leaves the store equal to the rows it had, less those older than
\* the cutoff and those whose matching key is the key of an incoming record,
\* followed by the first occurrence of every incoming key.
C3_StoreAfterCycle ==
    (pc = "done" /\ failed = {} /\ AllOf(supabase_sales, Complete)) =>
        sales_unagg =
            SelectSeq(store0, LAMBDA r :
                ~Older(r)
                /\ ~(Complete(r) /\ MatchingKey(r) \in CompleteKeys(supabase_sales)))
            \o SubseqAt(supabase_sales, FirstOrIncomplete(supabase_sales))

\* the scenario S = {A}, B = [A, A, B]: one deletion, two insertions, {A, B}
C3_Witness ==
    /\ pc = "done" /\ failed = {}
    /\ Len(store0) = 1 /\ Len(supabase_sales) = 3
    /\ AllOf(supabase_sales, Complete) /\ Complete(store0[1])
    /\ MatchingKey(store0[1]) = MatchingKey(supabase_sales[1])
    /\ MatchingKey(supabase_sales[2]) = MatchingKey(supabase_sales[1])
    /\ MatchingKey(supabase_sales[3]) # MatchingKey(supabase_sales[1])
    /\ store0[1].address # supabase_sales[1].address
    /\ existing_duplicates_deleted = 1 /\ n_inserted = 2
    /\ Len(sales_unagg) = 2
    /\ sales_unagg[1].address = supabase_sales[1].address
    /\ summary.net_change = 1

\* C4: deduplicate_new_sales_data returns the subsequence of its input, in
\* input order, that keeps of every matching key exactly the first record and
\* drops every later record of that key.
C4_FirstOccurrenceKept ==
    Ran("dedup") =>
        deduplicated_sales =
            SubseqAt(supabase_sales, FirstOrIncomplete(supabase_sales))

\* a batch whose third record repeats the key of its first in another spelling
C4_Witness ==
    /\ Ran("dedup") /\ Len(supabase_sales) = 3
    /\ AllOf(supabase_sales, Complete)
    /\ MatchingKey(supabase_sales[3]) = MatchingKey(supabase_sales[1])
    /\ MatchingKey(supabase_sales[2]) # MatchingKey(supabase_sales[1])
    /\ supabase_sales[3].address # supabase_sales[1].address
    /\ deduplicated_sales = <<supabase_sales[1], supabase_sales[2]>>

\* C5: every incoming record without an address, a sale_date or a sale_price is
\* in the output of deduplicate_new_sales_data, as often as in the input.
C5_IncompleteSurvive ==
    Ran("dedup") =>
        SelectSeq(deduplicated_sales, Incomplete)
            = SelectSeq(supabase_sales, Incomplete)

\* a batch with the same priceless record twice around its complete twin
C5_Witness ==
    /\ Ran("dedup") /\ Len(supabase_sales) = 3
    /\ Incomplete(supabase_sales[1]) /\ supabase_sales[3] = supabase_sales[1]
    /\ Complete(supabase_sales[2])
    /\ supabase_sales[2].address = supabase_sales[1].address
    /\ supabase_sales[2].sale_date = supabase_sales[1].sale_date
    /\ Len(deduplicated_sales) = 3

\* C6: in delete_existing_duplicate_sales a record with an incomplete key takes
\* part in no matching: the rows the resolver removes are complete rows whose
\* key is the key of a complete incoming record; every other row stays.
C6_IncompleteNotMatched ==
    LastStage = "resolve" =>
        LET Stays(r) == ~(Complete(r)
                          /\ MatchingKey(r) \in CompleteKeys(deduplicated_sales))
        IN  /\ SelectSeq(sales_unagg, Stays) = SelectSeq(store_in, Stays)
            /\ SelectSeq(sales_unagg, Incomplete) = SelectSeq(store_in, Incomplete)

\* the resolver has queried the store for a batch that holds the twin of a
\* persisted incomplete row, and the row is still there
C6_Witness ==
    /\ LastStage = "resolve" /\ "resolve" \notin failed
    /\ existing_sales # <<>>
    /\ \E i \in 1..Len(store_in), k \in 1..Len(deduplicated_sales) :
        /\ Incomplete(store_in[i])
        /\ store_in[i].address = deduplicated_sales[k].address
        /\ store_in[i].sale_date = deduplicated_sales[k].sale_date
        /\ store_in[i].sale_price = deduplicated_sales[k].sale_price
        /\ \E j \in 1..Len(sales_unagg) : sales_unagg[j] = store_in[i]

(***************************************************************************)
(* The prune alone, for every retention window and a range of dates of     *)
(* today: delete_old_sales_data on a table with rows around the cutoff.    *)
(***************************************************************************)
CutoffTodays ==
    { [year |-> 2025, month |-> 6,  day |-> 15],
      [year |-> 2025, month |-> 1,  day |-> 31],
      [year |-> 2025, month |-> 3,  day |-> 31],
      [year |-> 2024, month |-> 2,  day |-> 29],
      [year |-> 2025, month |-> 12, day |-> 31],
      [year |-> 2024, month |-> 12, day |-> 1],
      [year |-> 2023, month |-> 5,  day |-> 30],
      [year |-> 2000, month |-> 1,  day |-> 1] }

\* the last day of the month before the month that begins on first
DayBefore(first) ==
    LET y == first \div 10000
        m == (first \div 100) % 100
    IN  IF m = 1 THEN (y - 1) * 10000 + 1231
        ELSE y * 10000 + (m - 1) * 100 + DaysInMonth(y, m - 1)

\* persisted rows dated around the month start n months before now
RowsAround(now, n) ==
    LET first == MonthStartBefore(now, n)
        dates == <<DayBefore(first), first, first + 14, 0, 20220531, 20220601,
                   DayBefore((DayBefore(first) - (DayBefore(first) % 100)) + 1)>>
    IN  [i \in 1..Len(dates) |->
            [address |-> AddrClean, sale_date |-> dates[i],
             sale_price |-> 300000, as_of_date |-> Formatted(now)]]

InitCutoff ==
    \E now \in CutoffTodays, n \in 0..MaxWindow :
        /\ config = [retention_window |-> n, batch_size |-> batch_size]
        /\ today = now
        /\ sales_unagg = RowsAround(now, n)
        /\ pc = NextStage("start")
        /\ supabase_sales = <<>>
        /\ deduplicated_sales = <<>>
        /\ existing_sales = <<>>
        /\ old_deleted = 0
        /\ internal_duplicates_removed = 0
        /\ existing_duplicates_deleted = 0
        /\ summary = NoSummary
        /\ failed = {}
        /\ stages = <<>>
        /\ store0 = RowsAround(now, n)
        /\ store_in = RowsAround(now, n)
        /\ n_inserted = 0
        /\ runs = 1
        /\ all_ok = TRUE
    /\ uploads = <<>>
    /\ requests = NoRequests
    /\ listings_unagg = <<>>
    /\ supabase_listings = <<>>

NextCutoff == DeleteOldSalesData

SpecCutoff == InitCutoff /\ [][NextCutoff]_vars

\* C7: the prune cutoff is day 1 of the calendar month retention_window months
\* before the month of today, and a successful prune deletes exactly the
\* persisted records dated strictly before it.
C7_PruneAtMonthStart ==
    (LastStage = "prune" /\ "prune" \notin failed) =>
        /\ get_retention_cutoff_formatted(config, today) = Cutoff
        /\ sales_unagg = SelectSeq(store_in, LAMBDA r : ~Older(r))
        /\ old_deleted = Len(store_in) - Len(sales_unagg)

\* N = 36 on 2025-06-15: the row of 2022-05-31 is pruned, that of 2022-06-01 kept
C7_Witness ==
    /\ LastStage = "prune" /\ "prune" \notin failed
    /\ config.retention_window = 36
    /\ today = [year |-> 2025, month |-> 6, day |-> 15]
    /\ \E i \in 1..Len(store_in) : store_in[i].sale_date = 20220531
    /\ \A i \in 1..Len(sales_unagg) : sales_unagg[i].sale_date # 20220531
    /\ \E i \in 1..Len(sales_unagg) : sales_unagg[i].sale_date = 20220601
    /\ old_deleted > 0

(***************************************************************************)
(* Keys: one cycle on addresses written with whitespace and letters of     *)
(* every kind: blanks of ASCII, of Latin-1 and above it, letters whose     *)
(* capital is one character of another range, or two characters.           *)
(***************************************************************************)
\* "ße" between an em space and a carriage return, and in capitals
AddrSharp == <<"U+2003", "ß", "é", "\r">>
AddrSharpClean == <<"S", "S", "É">>
\* the micro sign and a with macron, and in capitals
AddrMicro == <<"µ", "U+0101">>
AddrMicroClean == <<"U+039C", "U+0100">>
\* y with diaeresis, a blank and the ligature fi, and in capitals
AddrLigature == <<"ÿ", " ", "U+FB01">>
AddrLigatureClean == <<"U+0178", " ", "F", "I">>
\* nothing but whitespace
AddrBlank == <<"U+3000", "\t">>

KeyAddresses ==
    { AddrRaw, AddrClean, AddrOther, AddrSharp, AddrSharpClean, AddrMicro,
      AddrMicroClean, AddrLigature, AddrLigatureClean, AddrBlank }

KeySales ==
    { Sale(addr, 20230101, 300000) : addr \in KeyAddresses }
        \cup { Sale(AddrSharpClean, 20230102, 300000),    \* another day
               Sale(AddrSharp,      20230101, 250000) }   \* another price

KeyBatches == UNION {[1..n -> KeySales] : n \in 0..MaxKeyBatch}

\* stores left by an earlier run: empty, or one row
KeyStores ==
    { prepare_sales_for_supabase(rows, 20250601) :
        rows \in {<<>>} \cup
            { <<Sale(addr, 20230101, 300000)>> :
                addr \in {AddrClean, AddrSharpClean, AddrMicro,
                          AddrLigatureClean, AddrBlank} } }

InitKeys ==
    /\ config = [retention_window |-> retention_window, batch_size |-> batch_size]
    /\ today = [year |-> 2025, month |-> 6, day |-> 15]
    /\ sales_unagg \in KeyStores
    /\ pc = "idle"
    /\ supabase_sales = <<>>
    /\ deduplicated_sales = <<>>
    /\ existing_sales = <<>>
    /\ old_deleted = 0
    /\ internal_duplicates_removed = 0
    /\ existing_duplicates_deleted = 0
    /\ summary = NoSummary
    /\ failed = {}
    /\ stages = <<>>
    /\ store0 = <<>>
    /\ store_in = <<>>
    /\ n_inserted = 0
    /\ runs = 0
    /\ all_ok = TRUE
    /\ uploads = <<>>
    /\ requests = NoRequests
    /\ listings_unagg = <<>>
    /\ supabase_listings = <<>>

\* the one run of the pipeline calls upload_all_data; no listing was fetched
StartKeys ==
    /\ pc = "idle"
    /\ runs = 0
    /\ \E sales \in KeyBatches, early \in BOOLEAN :
        BeginUpload(today,
                    prepare_sales_for_supabase(sales, Formatted(today)),
                    prepare_listings_for_supabase(<<>>, Formatted(today)),
                    early, 0, 0)
    /\ runs' = runs + 1

NextKeys ==
    \/ StartKeys
    \/ DeleteOldSalesData
    \/ DeduplicateNewSalesData
    \/ DeleteExistingDuplicateSales
    \/ InsertDataInBatches
    \/ Summarize
    \/ Return

SpecKeys == InitKeys /\ [][NextKeys]_vars

\* C8: key normalization trims the surrounding whitespace of the address and
\* puts it in capitals, and leaves date and price as they are; it is
\* idempotent; the deduplicator and the resolver treat two complete records as
\* one transaction exactly when their normalized (address, sale_date,
\* sale_price) triples are equal: the deduplicator keeps one incoming record
\* of every triple, and the resolver deletes a persisted record exactly when
\* its triple is the triple of an incoming record.
C8_KeyNormalization ==
    LET seen == {supabase_sales[i] : i \in 1..Len(supabase_sales)}
        rows == {store_in[i] : i \in 1..Len(store_in)}
    IN  /\ \A r \in seen \cup rows :
            /\ address_clean(r.address) = Normalized(r.address)
            /\ address_clean(address_clean(r.address)) = address_clean(r.address)
        /\ \A r \in seen, t \in seen \cup rows :
            (Complete(r) /\ Complete(t)) =>
                /\ (unique_key(r) = unique_key(t)) <=> (MatchingKey(r) = MatchingKey(t))
                /\ (new_sale_key(r) = existing_key(t)) <=> (MatchingKey(r) = MatchingKey(t))
        /\ Ran("dedup") =>
            \A r \in seen :
                Complete(r) =>
                    Cardinality({i \in 1..Len(deduplicated_sales) :
                        /\ Complete(deduplicated_sales[i])
                        /\ MatchingKey(deduplicated_sales[i]) = MatchingKey(r)}) = 1
        /\ (LastStage = "resolve" /\ "resolve" \notin failed) =>
            \A i \in 1..Len(store_in) :
                Complete(store_in[i]) =>
                    ((\E k \in 1..Len(sales_unagg) : sales_unagg[k] = store_in[i])
                        <=> MatchingKey(store_in[i]) \notin CompleteKeys(deduplicated_sales))

\* one address written with an em space, a sharp s and a carriage return, and
\* written in capitals, both in the batch, while the store held the row in
\* capitals: the later incoming record was dropped and the persisted one
\* deleted
C8_Witness ==
    /\ LastStage = "resolve" /\ "resolve" \notin failed
    /\ internal_duplicates_removed = 1
    /\ existing_duplicates_deleted = 1
    /\ Len(supabase_sales) = 2
    /\ supabase_sales[1].address = AddrSharp
    /\ supabase_sales[2].address = AddrSharpClean
    /\ MatchingKey(supabase_sales[1]) = MatchingKey(supabase_sales[2])
    /\ Len(deduplicated_sales) = 1
    /\ deduplicated_sales[1].address = AddrSharp
    /\ Len(store_in) = 1
    /\ store_in[1].address = AddrSharpClean
    /\ sales_unagg = <<>>

\* C9: the reported net change is inserted - (pruned + existing duplicates
\* removed), inserted being the length of the deduplicated batch; the count of
\* internal duplicates is reported and is no term of the net change.
C9_NetChange ==
    /\ NetChange(40, total_deleted(10, 7)) = 23
    /\ pc = "done" =>
        /\ summary.printed
        /\ summary.old = old_deleted
        /\ summary.existing = existing_duplicates_deleted
        /\ summary.inserted = Len(deduplicated_sales)
        /\ summary.internal = Len(supabase_sales) - Len(deduplicated_sales)
        /\ summary.net_change
             = Len(deduplicated_sales) - (old_deleted + existing_duplicates_deleted)

\* a cycle that pruned, dropped an internal duplicate, deleted an existing
\* duplicate and inserted
C9_Witness ==
    /\ pc = "done"
    /\ summary.old > 0 /\ summary.internal > 0
    /\ summary.existing > 0 /\ summary.inserted > 0
    /\ summary.net_change = summary.inserted - summary.old - summary.existing

\* C10, as claimed: in every cycle the stages run in the order prune, dedup,
\* resolve, insert, summarize, each exactly once: the stages run so far are
\* the first of the five in this order, and a cycle that has ended, by its
\* return or by an exception, has run all five; nothing is deleted from the
\* store before the prune has run and nothing is inserted before the resolver
\* has run, whatever the batch holds.
C10_EachStageOnce ==
    /\ Len(stages) <= Len(StageOrder)
    /\ stages = SubSeq(StageOrder, 1, Len(stages))
    /\ pc \in {"done", "aborted"} => stages = StageOrder
    /\ (pc # "idle" /\ ~Ran("prune")) => sales_unagg = store0
    /\ (pc # "idle" /\ ~Ran("resolve")) =>
            /\ n_inserted = 0
            /\ Len(sales_unagg) = Len(store0) - old_deleted
    /\ (pc # "idle" /\ ~Ran("insert")) => n_inserted = 0


\* how often the row r occurs in seq
Count(seq, r) == Cardinality({i \in 1..Len(seq) : seq[i] = r})

\* the rows the resolver has no reason to remove for the batch in data
Unmatched(data, r) == ~(Complete(r) /\ MatchingKey(r) \in CompleteKeys(data))

\* C11, as claimed: every cycle ends after its summary, whichever store
\* operation of the prune, the resolver or the insert has failed.
C11_SummaryAlwaysProduced ==
    pc \in {"done", "aborted"} => summary.printed

\* C12: when the delete request of the prune fails, delete_old_sales_data
\* returns 0 and raises nothing, and the cycle goes on with the dedup, the
\* resolver and the insert on the store as it was, nothing pruned.
C12_PruneFailureNonFatal ==
    "prune" \in failed =>
        /\ old_deleted = 0
        /\ pc = "aborted" => "insert" \in failed
        /\ LastStage = "prune" => (pc = "dedup" /\ sales_unagg = store0)
        /\ Ran("dedup") =>
            deduplicated_sales
                = SubseqAt(supabase_sales, FirstOrIncomplete(supabase_sales))
        /\ (LastStage = "resolve" /\ "resolve" \notin failed) =>
            sales_unagg
                = SelectSeq(store0, LAMBDA r : Unmatched(deduplicated_sales, r))
        /\ (pc = "done" /\ failed = {"prune"}) =>
            /\ sales_unagg
                = SelectSeq(store0, LAMBDA r : Unmatched(deduplicated_sales, r))
                  \o deduplicated_sales
            /\ summary.old = 0

\* a cycle whose prune failed kept the old row, replaced a persisted duplicate
\* and printed its summary
C12_Witness ==
    /\ pc = "done" /\ failed = {"prune"}
    /\ \E i \in 1..Len(store0) :
        Older(store0[i]) /\ Count(sales_unagg, store0[i]) > 0
    /\ existing_duplicates_deleted > 0
    /\ n_inserted > 0
    /\ summary.printed

\* C13: when the range query or a delete request of the resolver fails,
\* delete_existing_duplicate_sales raises nothing and returns a count, and the
\* insert that follows adds the whole deduplicated batch.
C13_ResolverFailureNonFatal ==
    "resolve" \in failed =>
        /\ existing_duplicates_deleted \in Nat
        /\ LastStage = "resolve" => pc = "insert"
        /\ (LastStage = "insert" /\ "insert" \notin failed) =>
            /\ sales_unagg = store_in \o deduplicated_sales
            /\ n_inserted = Len(deduplicated_sales)
        /\ pc = "done" => summary.inserted = Len(deduplicated_sales)

\* a delete request failed after the range query had returned rows, and the
\* batch was inserted whole
C13_Witness ==
    /\ LastStage = "insert" /\ failed = {"resolve"}
    /\ existing_sales # <<>>
    /\ Len(deduplicated_sales) >= 2
    /\ n_inserted = Len(deduplicated_sales)

\* the sale_dates of the incoming records, the missing ones left out
IncomingDates ==
    {supabase_sales[i].sale_date : i \in 1..Len(supabase_sales)} \ {0}

\* r is dated outside [min, max] of the incoming sale_dates
OutsideRange(r) ==
    ~ \E lo \in IncomingDates, hi \in IncomingDates :
        lo <= r.sale_date /\ r.sale_date <= hi

\* C14: a persisted record dated outside [min, max] of the incoming sale_dates
\* is not among the rows the range query returns and is not deleted by
\* delete_existing_duplicate_sales.
C14_OutsideRangeUntouched ==
    LastStage = "resolve" =>
        \A i \in 1..Len(store_in) :
            OutsideRange(store_in[i]) =>
                /\ \A j \in 1..Len(existing_sales) :
                    existing_sales[j].sale_date # store_in[i].sale_date
                /\ Count(sales_unagg, store_in[i]) = Count(store_in, store_in[i])

\* the resolver deleted a duplicate and left the row of the same address and
\* price dated before the range
C14_Witness ==
    /\ LastStage = "resolve" /\ "resolve" \notin failed
    /\ existing_duplicates_deleted > 0
    /\ \E i \in 1..Len(store_in), k \in 1..Len(deduplicated_sales) :
        /\ Complete(store_in[i]) /\ Complete(deduplicated_sales[k])
        /\ OutsideRange(store_in[i])
        /\ Normalized(store_in[i].address) = Normalized(deduplicated_sales[k].address)
        /\ store_in[i].sale_price = deduplicated_sales[k].sale_price
        /\ Count(sales_unagg, store_in[i]) = 1

\* t is r at another price: the same address and sale_date, complete keys
Revision(r, t) ==
    /\ Complete(r) /\ Complete(t)
    /\ Normalized(r.address) = Normalized(t.address)
    /\ r.sale_date = t.sale_date
    /\ r.sale_price # t.sale_price

\* C20: an incoming record with the address and sale_date of a persisted record
\* and another sale_price does not make the resolver delete that record, and
\* at the end of the cycle both records are persisted.
C20_RevisionKept ==
    /\ LastStage = "resolve" =>
        \A i \in 1..Len(store_in), k \in 1..Len(deduplicated_sales) :
            (Revision(store_in[i], deduplicated_sales[k])
             /\ Unmatched(deduplicated_sales, store_in[i]))
                => Count(sales_unagg, store_in[i]) = Count(store_in, store_in[i])
    /\ pc = "done" =>
        \A i \in 1..Len(store0), k \in 1..Len(supabase_sales) :
            (Revision(store0[i], supabase_sales[k])
             /\ Unmatched(supabase_sales, store0[i]) /\ ~Older(store0[i]))
                => /\ Count(sales_unagg, store0[i]) = Count(store0, store0[i])
                   /\ \E j \in (Len(sales_unagg) - n_inserted + 1)..Len(sales_unagg) :
                        MatchingKey(sales_unagg[j]) = MatchingKey(supabase_sales[k])

\* a cycle ended with a persisted sale and its incoming revision side by side
C20_Witness ==
    /\ pc = "done" /\ failed = {}
    /\ existing_sales # <<>>
    /\ \E i \in 1..Len(store0), k \in 1..Len(supabase_sales) :
        /\ Revision(store0[i], supabase_sales[k])
        /\ Unmatched(supabase_sales, store0[i])
        /\ \E a, b \in 1..Len(sales_unagg) :
            /\ a < b
            /\ sales_unagg[a] = store0[i]
            /\ MatchingKey(sales_unagg[b]) = MatchingKey(supabase_sales[k])

(***************************************************************************)
(* The pipeline run twice on one day with the same frames: upload_all_data *)
(* is called again with the batch and the date of the run that just ended. *)
(***************************************************************************)
\* stores left by earlier runs: none, or one row of any kind
RepeatStores ==
    {<<>>} \cup {prepare_sales_for_supabase(<<r>>, 20250601) : r \in Sales}

InitRepeat ==
    /\ config = [retention_window |-> retention_window, batch_size |-> batch_size]
    /\ today = [year |-> 2025, month |-> 6, day |-> 15]
    /\ sales_unagg \in RepeatStores
    /\ pc = "idle"
    /\ supabase_sales = <<>>
    /\ deduplicated_sales = <<>>
    /\ existing_sales = <<>>
    /\ old_deleted = 0
    /\ internal_duplicates_removed = 0
    /\ existing_duplicates_deleted = 0
    /\ summary = NoSummary
    /\ failed = {}
    /\ stages = <<>>
    /\ store0 = <<>>
    /\ store_in = <<>>
    /\ n_inserted = 0
    /\ runs = 0
    /\ all_ok = TRUE
    /\ uploads = <<>>
    /\ requests = NoRequests
    /\ listings_unagg = <<>>
    /\ supabase_listings = <<>>

\* the first run of the day
FirstCycle == runs = 0 /\ StartCycle

\* the same frames and today_formatted are uploaded once more
RepeatCycle ==
    /\ pc = "done"
    /\ runs < MaxRuns
    /\ \E early \in BOOLEAN, fault \in CycleClearFaults, failAt \in 0..1 :
        BeginUpload(today, supabase_sales, supabase_listings,
                    early, fault, failAt)
    /\ runs' = runs + 1

NextRepeat ==
    \/ FirstCycle
    \/ RepeatCycle
    \/ DeleteOldSalesData
    \/ DeduplicateNewSalesData
    \/ DeleteExistingDuplicateSales
    \/ InsertDataInBatches
    \/ Summarize
    \/ Return

SpecRepeat == InitRepeat /\ [][NextRepeat]_vars

\* the two tables hold the same rows, each as often
SameRows(s, t) ==
    \A r \in {s[i] : i \in 1..Len(s)} \cup {t[i] : i \in 1..Len(t)} :
        Count(s, r) = Count(t, r)

\* C15, as claimed: a cycle repeated with the same batch on the same date, no
\* store operation failing, leaves the rows the first cycle left, each as
\* often, whatever the batch holds.
C15_RepeatedRunSameRows ==
    (pc = "done" /\ runs >= 2 /\ all_ok) => SameRows(sales_unagg, store0)

(***************************************************************************)
(* Recovery: store operations may fail in the cycles before the last       *)
(* counted one; the cycles after it, as many as one likes, run without a   *)
(* failing store operation.                                                *)
(***************************************************************************)
RecoverySales ==
    { Sale(AddrRaw,   20230101, 300000),
      Sale(AddrClean, 20230101, 300000),
      Sale(AddrOther, 20230102, 250000) }

RecoveryBatches == UNION {[1..n -> RecoverySales] : n \in 0..MaxRecoveryBatch}

\* stores left by earlier runs: a row older than the cutoff, a current row,
\* and the current row with the copy a run with a failed resolver added
RecoveryStores ==
    LET old == Sale(AddrClean, 20220531, 300000)
        cur == Sale(AddrClean, 20230101, 300000)
        raw == Sale(AddrRaw, 20230101, 300000)
    IN  { prepare_sales_for_supabase(rows, 20250601) :
            rows \in {<<>>, <<old>>, <<cur>>, <<old, cur>>, <<cur, raw>>} }

InitRecovery ==
    /\ config = [retention_window |-> retention_window, batch_size |-> batch_size]
    /\ today = [year |-> 2025, month |-> 6, day |-> 15]
    /\ sales_unagg \in RecoveryStores
    /\ pc = "idle"
    /\ supabase_sales = <<>>
    /\ deduplicated_sales = <<>>
    /\ existing_sales = <<>>
    /\ old_deleted = 0
    /\ internal_duplicates_removed = 0
    /\ existing_duplicates_deleted = 0
    /\ summary = NoSummary
    /\ failed = {}
    /\ stages = <<>>
    /\ store0 = <<>>
    /\ store_in = <<>>
    /\ n_inserted = 0
    /\ runs = 0
    /\ all_ok = TRUE
    /\ uploads = <<>>
    /\ requests = NoRequests
    /\ listings_unagg = <<>>
    /\ supabase_listings = <<>>

\* the days of the runs: the day of the first one, and a day eight months
\* later, when the cutoff has passed every sale_date of the incoming records
RecoveryDays ==
    { [year |-> 2025, month |-> 6, day |-> 15],
      [year |-> 2026, month |-> 2, day |-> 15] }

\* a run of the pipeline calls upload_all_data on the day it is started, the
\* day of the run before or a later one; runs counts up to MaxRuns, and from
\* cycle number MaxRuns on no request raises
StartRun(batches, fetched) ==
    /\ pc = "idle"
    /\ \E now \in RecoveryDays, sales \in batches :
        /\ Formatted(now) >= Formatted(today)
        /\ Len(sales_unagg) + Len(deduplicate_new_sales_data(sales)) <= MaxStore
        /\ \E listings \in fetched, early \in BOOLEAN,
              fault \in CycleClearFaults, failAt \in 0..1 :
            /\ (early \/ failAt > 0) => runs + 1 < MaxRuns
            /\ BeginUpload(now,
                           prepare_sales_for_supabase(sales, Formatted(now)),
                           prepare_listings_for_supabase(listings, Formatted(now)),
                           early, fault, failAt)
    /\ runs' = IF runs < MaxRuns THEN runs + 1 ELSE runs

StartCycleRecovery == StartRun(RecoveryBatches, CycleListings)

\* from cycle number MaxRuns on no store operation fails
NoNewFailure == runs < MaxRuns \/ failed' = failed

NextRecovery ==
    \/ StartCycleRecovery
    \/ (DeleteOldSalesData /\ NoNewFailure)
    \/ DeduplicateNewSalesData
    \/ (DeleteExistingDuplicateSales /\ NoNewFailure)
    \/ (InsertDataInBatches /\ NoNewFailure)
    \/ Summarize
    \/ Return

\* the pipeline keeps being run
SpecRecovery == InitRecovery /\ [][NextRecovery]_vars /\ WF_vars(NextRecovery)

\* C16: after the prune of one cycle has failed and left persisted records
\* older than the cutoff, a later cycle whose prune succeeds removes every
\* record persisted before it that is older than its cutoff.
C16_LaterPruneRestores ==
    (Ran("prune") /\ "prune" \notin failed) =>
        /\ n_inserted <= Len(sales_unagg)
        /\ \A i \in 1..Len(store0) :
            Older(store0[i]) =>
                \A j \in 1..(Len(sales_unagg) - n_inserted) :
                    sales_unagg[j] # store0[i]

\* the prune of the first cycle failed and left a record of May 2022; the
\* prune of a later cycle has removed it
C16_Witness ==
    /\ runs = MaxRuns /\ ~all_ok
    /\ pc = "done" /\ "prune" \notin failed
    /\ \E i \in 1..Len(store0) : Older(store0[i])
    /\ old_deleted > 0
    /\ AllOf(sales_unagg, LAMBDA r : ~Older(r))

\* two persisted complete records have one matching key
HasSharedKey(seq) ==
    \E i, j \in 1..Len(seq) :
        /\ i < j /\ Complete(seq[i]) /\ Complete(seq[j])
        /\ MatchingKey(seq[i]) = MatchingKey(seq[j])

\* the persisted complete records of key k
RowsOfKey(seq, k) == {i \in 1..Len(seq) : Complete(seq[i]) /\ MatchingKey(seq[i]) = k}

(***************************************************************************)
(* Restoration: the runs of the recovery with batches of at most one       *)
(* record and no listing fetched, and days that pass.                      *)
(***************************************************************************)
RestoreBatches == {<<>>} \cup {<<sale>> : sale \in RecoverySales}

StartCycleRestore == StartRun(RestoreBatches, {<<>>})

\* a run started on a later day than the run before
StartLaterDay == StartCycleRestore /\ Formatted(today') > Formatted(today)

NextRestore ==
    \/ StartCycleRestore
    \/ (DeleteOldSalesData /\ NoNewFailure)
    \/ DeduplicateNewSalesData
    \/ (DeleteExistingDuplicateSales /\ NoNewFailure)
    \/ (InsertDataInBatches /\ NoNewFailure)
    \/ Summarize
    \/ Return

\* the pipeline keeps being run, and not for ever on one day: every run takes
\* the day from the clock
SpecRestore ==
    /\ InitRecovery /\ [][NextRestore]_vars
    /\ WF_vars(NextRestore)
    /\ SF_vars(StartLaterDay)

\* C17: once a failed resolver and the insert after it have left two
\* persisted records with one matching key, later cycles without a failing
\* store operation, whatever their batches, lead to a store in which no two
\* persisted records share a matching key.
C17_EventuallyNoSharedKey ==
    (pc = "idle" /\ runs >= 1 /\ HasSharedKey(sales_unagg))
        ~> ~HasSharedKey(sales_unagg)

\* C17, the two ways of the restoration: at the end of a cycle without a
\* failing store operation every matching key of a complete incoming record is
\* the key of exactly one persisted record, and no persisted record older than
\* the cutoff is left; a persisted record of neither kind stays as it is.
C17_RestoredForIncomingKeys ==
    (pc = "done" /\ failed = {}) =>
        /\ \A k \in CompleteKeys(supabase_sales) :
            Cardinality(RowsOfKey(sales_unagg, k)) = 1
        /\ \A i \in 1..(Len(sales_unagg) - n_inserted) : ~Older(sales_unagg[i])
        /\ \A i \in 1..Len(store0) :
            (Unmatched(supabase_sales, store0[i]) /\ ~Older(store0[i]))
                => Count(sales_unagg, store0[i]) = Count(store0, store0[i])

\* the resolver of the first cycle failed and its insert left a pair of one
\* key; a later cycle without a failure, whose batch does not carry the key,
\* ran when the cutoff had passed the pair's sale date and its prune removed
\* both records
C17_Witness ==
    /\ pc = "done" /\ failed = {} /\ ~all_ok
    /\ runs = MaxRuns
    /\ HasSharedKey(store0)
    /\ \A i \in 1..Len(store0) : Unmatched(supabase_sales, store0[i])
    /\ existing_duplicates_deleted = 0
    /\ old_deleted >= 2
    /\ ~HasSharedKey(sales_unagg)

\* the same pair met by a cycle without a failure whose batch carries the key,
\* before the cutoff reached it: the resolver deleted both records and the
\* insert put one back
C17_ResolverRestores ==
    /\ pc = "done" /\ failed = {} /\ ~all_ok
    /\ runs = MaxRuns
    /\ HasSharedKey(store0)
    /\ old_deleted = 0
    /\ existing_duplicates_deleted >= 2
    /\ ~HasSharedKey(sales_unagg)

(***************************************************************************)
(* Two calls of upload_all_data side by side on one sales_unagg table, as  *)
(* two runs of the pipeline started at the same time make them.  Every     *)
(* request to the store is one step; no request fails.  uploads.cycle[p]   *)
(* holds the locals of call p, the other fields are history.               *)
(***************************************************************************)
Procs == {1, 2}

Other(p) == CHOOSE q \in Procs : q # p

UploadSales ==
    { Sale(AddrRaw,   20230101, 300000),
      Sale(AddrClean, 20230101, 300000),
      Sale(AddrOther, 20230102, 250000) }

UploadBatches == UNION {[1..n -> UploadSales] : n \in 0..MaxUploadBatch}

\* stores left by earlier runs
UploadStores ==
    LET cur == Sale(AddrClean, 20230101, 300000)
        oth == Sale(AddrOther, 20230102, 250000)
    IN  { prepare_sales_for_supabase(rows, 20250601) :
            rows \in {<<>>, <<cur>>, <<cur, oth>>} }

NoUpload ==
    [pc |-> "idle", supabase_listings |-> <<>>, supabase_sales |-> <<>>,
     deduplicated_sales |-> <<>>,
     old_deleted |-> 0, internal_duplicates_removed |-> 0,
     duplicates_to_delete |-> <<>>, batch_deleted |-> <<>>, deleted_count |-> 0,
     existing_duplicates_deleted |-> 0, net_change |-> 0]

InitUploads ==
    /\ config = [retention_window |-> retention_window, batch_size |-> batch_size]
    /\ today = [year |-> 2025, month |-> 6, day |-> 15]
    /\ \E table \in UploadStores :
        /\ sales_unagg = table
        /\ store0 = table
        /\ store_in = table
    /\ pc = "idle"
    /\ supabase_sales = <<>>
    /\ deduplicated_sales = <<>>
    /\ existing_sales = <<>>
    /\ old_deleted = 0
    /\ internal_duplicates_removed = 0
    /\ existing_duplicates_deleted = 0
    /\ summary = NoSummary
    /\ failed = {}
    /\ stages = <<>>
    /\ n_inserted = 0
    /\ runs = 0
    /\ all_ok = TRUE
    /\ uploads = [cycle |-> [p \in Procs |-> NoUpload], overlap |-> FALSE,
                  race |-> FALSE, last |-> [proc |-> 0, step |-> "none"]]
    /\ requests = NoRequests
    /\ listings_unagg = <<>>
    /\ supabase_listings = <<>>

\* call p is between its first and its last step
Busy(p) == uploads.cycle[p].pc \notin {"idle", "done"}

\* call p takes the step named step: its locals become locals, the sales
\* table table, the listings table listings
UploadStep(p, step, locals, table, listings) ==
    /\ uploads' =
        [cycle |-> [uploads.cycle EXCEPT ![p] = locals],
         overlap |-> uploads.overlap \/ Busy(Other(p)),
         race |-> uploads.race
                  \/ (step = "insert" /\ uploads.cycle[Other(p)].pc = "insert"),
         last |-> [proc |-> p, step |-> step]]
    /\ sales_unagg' = table
    /\ listings_unagg' = listings
    /\ store_in' = sales_unagg
    /\ UNCHANGED <<requests, supabase_listings, config, today, pc, supabase_sales, deduplicated_sales,
                   existing_sales, old_deleted, internal_duplicates_removed,
                   existing_duplicates_deleted, summary, failed, stages, store0,
                   n_inserted, runs, all_ok>>

\* the listings call p is given: none, or one listing of its own
UploadListings(p) ==
    {<<>>, <<IF p = 1 THEN Listing(AddrClean, 300000)
                      ELSE Listing(AddrOther, 250000)>>}

\* upload_all_data is called with its frames and refreshes hex_summary and
\* county_summary
UploadStart(p) ==
    LET me == uploads.cycle[p]
    IN  /\ me.pc = "idle"
        /\ \E sales \in UploadBatches, listings \in UploadListings(p) :
            UploadStep(p, "start",
                [me EXCEPT !.pc = "clear_older",
                           !.supabase_listings =
                               prepare_listings_for_supabase(listings,
                                                             Formatted(today)),
                           !.supabase_sales =
                               prepare_sales_for_supabase(sales,
                                                          Formatted(today))],
                sales_unagg, listings_unagg)

\* clear_table("listings_unagg"), first request: the rows of other days
UploadClearOlder(p) ==
    LET me == uploads.cycle[p]
    IN  /\ me.pc = "clear_older"
        /\ UploadStep(p, "clear_older", [me EXCEPT !.pc = "clear_today"],
                      sales_unagg,
                      DeleteNeqAsOfDate(listings_unagg, Formatted(today)))

\* clear_table("listings_unagg"), second request: the rows of today
UploadClearToday(p) ==
    LET me == uploads.cycle[p]
    IN  /\ me.pc = "clear_today"
        /\ UploadStep(p, "clear_today", [me EXCEPT !.pc = "insert_listings"],
                      sales_unagg,
                      DeleteEqAsOfDate(listings_unagg, Formatted(today)))

\* the insert request of the listings
UploadInsertListings(p) ==
    LET me == uploads.cycle[p]
        r == insert_data_in_batches(listings_unagg, me.supabase_listings,
                                    config, 0)
    IN  /\ me.pc = "insert_listings"
        /\ UploadStep(p, "insert_listings",
                      [me EXCEPT !.pc = NextStage("start")],
                      sales_unagg, r.table)

\* Step 1: the delete request of delete_old_sales_data
UploadPrune(p) ==
    LET me == uploads.cycle[p]
        r == delete_old_sales_data(sales_unagg, config, today, FALSE)
    IN  /\ me.pc = "prune"
        /\ UploadStep(p, "prune",
                [me EXCEPT !.pc = NextStage("prune"), !.old_deleted = r.result],
                r.table, listings_unagg)

\* Step 2: deduplicate_new_sales_data, no request
UploadDedup(p) ==
    LET me == uploads.cycle[p]
        out == deduplicate_new_sales_data(me.supabase_sales)
    IN  /\ me.pc = "dedup"
        /\ UploadStep(p, "dedup",
                [me EXCEPT !.pc = NextStage("dedup"),
                           !.deduplicated_sales = out,
                           !.internal_duplicates_removed =
                               Len(me.supabase_sales) - Len(out)],
                sales_unagg, listings_unagg)

\* Step 3, first part: the keys, the range query and the matching in memory
UploadFetch(p) ==
    LET me == uploads.cycle[p]
        data == me.deduplicated_sales
        nothing == data = <<>> \/ new_sale_keys(data) = {} \/ sale_dates(data) = {}
        existing == RangeQuery(sales_unagg, min_date(data), max_date(data))
        dups == IF nothing THEN <<>>
                ELSE duplicates_to_delete(existing, new_sale_keys(data))
    IN  /\ me.pc = "resolve"
        /\ UploadStep(p, "fetch",
                [me EXCEPT !.pc = IF dups = <<>> THEN NextStage("resolve")
                                  ELSE "delete",
                           !.duplicates_to_delete = dups],
                sales_unagg, listings_unagg)

\* batch_deleted = len(result.data) if result.data else 0, counted in a
\* request whatever it deleted
batch_deleted_per_request(before, after) == 1

\* batch_deleted = len(result.data) if result.data else 0
batch_deleted(before, after) == Len(before) - Len(after)

\* Step 3, second part: the next delete request of the loop
UploadDelete(p) ==
    LET me == uploads.cycle[p]
        i == Len(me.batch_deleted) + 1
        after == DeleteEq(sales_unagg, me.duplicates_to_delete[i])
        n == batch_deleted(sales_unagg, after)
        last == i = Len(me.duplicates_to_delete)
    IN  /\ me.pc = "delete"
        /\ UploadStep(p, "delete",
                [me EXCEPT !.pc = IF last THEN NextStage("resolve") ELSE "delete",
                           !.batch_deleted = Append(me.batch_deleted, n),
                           !.deleted_count = me.deleted_count + n,
                           !.existing_duplicates_deleted =
                               IF last THEN me.deleted_count + n ELSE 0],
                after, listings_unagg)

\* Step 4: the insert request of insert_data_in_batches
UploadInsert(p) ==
    LET me == uploads.cycle[p]
        r == insert_data_in_batches(sales_unagg, me.deduplicated_sales, config, 0)
    IN  /\ me.pc = "insert"
        /\ UploadStep(p, "insert", [me EXCEPT !.pc = NextStage("insert")],
                      r.table, listings_unagg)

\* Summary
UploadSummarize(p) ==
    LET me == uploads.cycle[p]
    IN  /\ me.pc = "summarize"
        /\ UploadStep(p, "summarize",
                [me EXCEPT !.pc = NextStage("summarize"),
                           !.net_change =
                               NetChange(total_inserted(me.deduplicated_sales),
                                         total_deleted(me.old_deleted,
                                             me.existing_duplicates_deleted))],
                sales_unagg, listings_unagg)

NextUploads ==
    \/ \E p \in Procs : UploadStart(p)
    \/ \E p \in Procs : UploadClearOlder(p)
    \/ \E p \in Procs : UploadClearToday(p)
    \/ \E p \in Procs : UploadInsertListings(p)
    \/ \E p \in Procs : UploadPrune(p)
    \/ \E p \in Procs : UploadDedup(p)
    \/ \E p \in Procs : UploadFetch(p)
    \/ \E p \in Procs : UploadDelete(p)
    \/ \E p \in Procs : UploadInsert(p)
    \/ \E p \in Procs : UploadSummarize(p)

SpecUploads == InitUploads /\ [][NextUploads]_vars

\* no call is between its first and its last step
AtRest == \A p \in Procs : ~Busy(p)

\* C18: two cycles that run one after the other on a store without two records
\* of one matching key leave no two such records, whatever their batches; two
\* cycles running side by side on batches that share a key can: both resolvers
\* finish before either insert, and both inserts add a record of the key.
C18_SerializedNoSharedKey ==
    (AtRest /\ ~uploads.overlap /\ ~HasSharedKey(store0))
        => ~HasSharedKey(sales_unagg)

\* both resolvers finished before the first insert, the batches share a key,
\* and the store ends with two records of that key
C18_Witness ==
    /\ \A p \in Procs : uploads.cycle[p].pc = "done"
    /\ uploads.overlap /\ uploads.race
    /\ ~HasSharedKey(store0)
    /\ CompleteKeys(uploads.cycle[1].supabase_sales)
         \cap CompleteKeys(uploads.cycle[2].supabase_sales) # {}
    /\ ~HasSharedKey(uploads.cycle[1].deduplicated_sales)
    /\ ~HasSharedKey(uploads.cycle[2].deduplicated_sales)
    /\ HasSharedKey(sales_unagg)

\* call p has just issued the delete of a row that the other call, which has
\* not inserted yet, selected too and has already asked to delete
SecondDelete(p, b) ==
    LET me == uploads.cycle[p]
        you == uploads.cycle[Other(p)]
    IN  /\ uploads.last = [proc |-> p, step |-> "delete"]
        /\ you.pc \in {"delete", "insert"}
        /\ b \in 1..Len(you.batch_deleted)
        /\ you.duplicates_to_delete[b]
             = me.duplicates_to_delete[Len(me.batch_deleted)]
        /\ uploads.cycle[p].batch_deleted = <<0>>
        /\ Len(sales_unagg) = Len(store0) - 1

\* C21: a call of delete_existing_duplicate_sales sends at most one range query
\* to the sales table, however many records come in, and none per record.
C21_SingleRangeQuery ==
    /\ requests.queries <= 1
    /\ LastStage = "resolve" =>
        requests.queries
            = (IF CompleteKeys(deduplicated_sales) = {} THEN 0 ELSE 1)

\* the resolver has handled several incoming records with one range query
C21_Witness ==
    /\ LastStage = "resolve" /\ "resolve" \notin failed
    /\ Len(deduplicated_sales) >= 2
    /\ AllOf(deduplicated_sales, Complete)
    /\ requests.queries = 1
    /\ requests.deletes >= 1

\* the sale_dates of the incoming records with a complete key
CompleteDates ==
    {deduplicated_sales[i].sale_date : i \in Positions(deduplicated_sales, Complete)}

\* C22, as claimed: the bounds of the range query are the least and the
\* greatest sale_date of the incoming records with a complete key; the
\* sale_date of a record without address or price does not widen the range.
C22_RangeOverCompleteKeys ==
    (LastStage = "resolve" /\ requests.queries = 1) =>
        /\ Len(requests.range) = 2
        /\ requests.range[1] \in CompleteDates
        /\ requests.range[2] \in CompleteDates
        /\ \A d \in CompleteDates :
            requests.range[1] <= d /\ d <= requests.range[2]

\* n / d rounded up
CeilDiv(n, d) == (n + d - 1) \div d

\* the persisted rows, before the resolver, that match a complete incoming key
Matched ==
    {i \in 1..Len(store_in) : ~Unmatched(deduplicated_sales, store_in[i])}

\* C23, as claimed: for m matched records the resolver sends at most
\* ceil(m / 50) delete requests.
C23_DeleteRequestsPerBatch ==
    (LastStage = "resolve" /\ "resolve" \notin failed) =>
        requests.deletes <= CeilDiv(Cardinality(Matched), 50)

\* C23, what the delete loop does: it walks the m matched records in slices of
\* 50, whatever the insertion batch size, and sends one delete request for
\* every matched record: m requests in ceil(m / 50) slices.
C23_OneDeleteRequestPerMatch ==
    (LastStage = "resolve" /\ "resolve" \notin failed) =>
        /\ requests.deletes = Cardinality(Matched)
        /\ requests.batches = CeilDiv(Cardinality(Matched), 50)
        /\ existing_duplicates_deleted = Cardinality(Matched)

\* two matched records were deleted with two requests out of one slice
C23_Witness ==
    /\ LastStage = "resolve" /\ "resolve" \notin failed
    /\ Cardinality(Matched) = 2
    /\ requests.deletes = 2
    /\ requests.batches = 1
    /\ Len(sales_unagg) = Len(store_in) - 2

\* the persisted rows the resolver of a finished cycle removed: what the
\* store lost over the cycle beyond the pruned rows and the inserted ones
ResolverRemoved ==
    (Len(store0) - old_deleted) - (Len(sales_unagg) - n_inserted)

\* C26, as claimed: in every cycle that reaches the summary the reported count
\* of existing duplicates is the number of rows the resolver removed, and the
\* reported net change is the change of the number of persisted sales.
C26_ReportedCountIsActual ==
    pc = "done" =>
        /\ summary.existing = ResolverRemoved
        /\ summary.net_change = Len(sales_unagg) - Len(store0)

\* C26, amended: the report is exact in a cycle whose resolver did not fail;
\* after a failed resolver request the reported count is 0 although the
\* deletes before the failure stay done, and the reported net change exceeds
\* the actual one by the number of rows the resolver removed.
C26_ReportedCountUnlessFailed ==
    pc = "done" =>
        /\ ResolverRemoved >= 0
        /\ "resolve" \notin failed =>
            /\ summary.existing = ResolverRemoved
            /\ summary.net_change = Len(sales_unagg) - Len(store0)
        /\ "resolve" \in failed =>
            /\ summary.existing = 0
            /\ summary.net_change
                = (Len(sales_unagg) - Len(store0)) + ResolverRemoved

\* the second delete request failed after the first had removed a row, and
\* the summary reports no existing duplicate deleted
C26_Witness ==
    /\ pc = "done" /\ failed = {"resolve"}
    /\ requests.deletes = 2
    /\ ResolverRemoved = 1
    /\ summary.printed /\ summary.existing = 0

\* C27, as claimed: every matching key of a persisted record dated on or after
\* the cutoff is still the key of a persisted record when the cycle has ended
\* or aborted.
C27_NoTransactionLost ==
    pc \in {"done", "aborted"} =>
        \A i \in 1..Len(store0) :
            (Complete(store0[i]) /\ ~Older(store0[i])) =>
                \E j \in 1..Len(sales_unagg) :
                    /\ Complete(sales_unagg[j])
                    /\ MatchingKey(sales_unagg[j]) = MatchingKey(store0[i])

\* the complete records of the incoming batch that repeat an earlier key
CompleteDropped ==
    Positions(supabase_sales, Complete) \ FirstOrIncomplete(supabase_sales)

\* C29: deduplicate_new_sales_data returns its own output unchanged, never
\* returns more records than it was given, and the internal-duplicates count
\* (input length minus output length) is the number of complete-key records
\* dropped, never negative.
C29_DedupIdempotent ==
    LastStage = "dedup" =>
        /\ deduplicate_new_sales_data(deduplicated_sales) = deduplicated_sales
        /\ Len(deduplicated_sales) <= Len(supabase_sales)
        /\ internal_duplicates_removed = Cardinality(CompleteDropped)
        /\ internal_duplicates_removed >= 0
        /\ Len(SelectSeq(deduplicated_sales, Incomplete))
            = Len(SelectSeq(supabase_sales, Incomplete))

\* a batch with an incomplete record and a repeated key was deduplicated
C29_Witness ==
    /\ LastStage = "dedup"
    /\ Len(supabase_sales) = 3
    /\ internal_duplicates_removed = 1
    /\ \E i \in 1..Len(deduplicated_sales) : Incomplete(deduplicated_sales[i])

\* C30: for a batch that is empty or has no record with a complete key the
\* resolver returns 0 and sends neither a range query nor a delete; a cycle
\* with an empty batch changes the store only by pruning, sends no insert
\* request and reports a net change of minus the pruned count.
C30_NothingToResolve ==
    /\ (LastStage = "resolve" /\ CompleteKeys(deduplicated_sales) = {}) =>
        /\ existing_duplicates_deleted = 0
        /\ requests.queries = 0 /\ requests.deletes = 0
        /\ "resolve" \notin failed
        /\ sales_unagg = store_in
    /\ supabase_sales = <<>> =>
        /\ pc # "aborted"
        /\ requests = NoRequests
        /\ pc = "done" =>
            /\ sales_unagg
                = (IF "prune" \in failed THEN store0
                   ELSE SelectSeq(store0, LAMBDA r : ~Older(r)))
            /\ Len(sales_unagg) = Len(store0) - old_deleted
            /\ summary.inserted = 0
            /\ summary.net_change = 0 - old_deleted

\* a cycle with an empty batch pruned a row and reported a net change of -1
C30_Witness ==
    /\ pc = "done" /\ supabase_sales = <<>> /\ failed = {}
    /\ Len(store0) >= 2
    /\ old_deleted = 1
    /\ summary.net_change = 0 - 1
    /\ requests = NoRequests

\* C28: the resolver removes only persisted records whose matching key is a
\* key of the incoming batch: the other persisted records stay as they were,
\* no row is added, the batch is what the deduplication returned, and without
\* a failed request exactly the matched rows are gone and the returned count
\* is their number, also when several rows have the same raw address, date
\* and price.
C28_ResolverFrame ==
    LastStage = "resolve" =>
        /\ deduplicated_sales = deduplicate_new_sales_data(supabase_sales)
        /\ \A i \in 1..Len(store_in) :
            Unmatched(deduplicated_sales, store_in[i]) =>
                Count(sales_unagg, store_in[i]) = Count(store_in, store_in[i])
        /\ \A j \in 1..Len(sales_unagg) :
            Count(sales_unagg, sales_unagg[j]) <= Count(store_in, sales_unagg[j])
        /\ "resolve" \notin failed =>
            /\ sales_unagg
                = SelectSeq(store_in, LAMBDA r : Unmatched(deduplicated_sales, r))
            /\ existing_duplicates_deleted = Len(store_in) - Len(sales_unagg)

\* the resolver removed two rows of the same raw address, date and price and
\* returned 2
C28_Witness ==
    /\ LastStage = "resolve" /\ "resolve" \notin failed
    /\ existing_duplicates_deleted = 2
    /\ Len(sales_unagg) = Len(store_in) - 2
    /\ \E i, j \in 1..Len(store_in) :
        /\ i < j
        /\ store_in[i].address = store_in[j].address
        /\ store_in[i].sale_date = store_in[j].sale_date
        /\ store_in[i].sale_price = store_in[j].sale_price

(***************************************************************************)
(* insert_data_in_batches under small batch sizes: the cycle stands before *)
(* its insert, on an empty store, with self.config.batch_size configured   *)
(* to 1..MaxChunk or left at its default.                                  *)
(***************************************************************************)
ChunkSizes == (1..MaxChunk) \cup {batch_size}

InitInsert ==
    /\ \E size \in ChunkSizes :
        config = [retention_window |-> retention_window, batch_size |-> size]
    /\ today = [year |-> 2025, month |-> 6, day |-> 15]
    /\ sales_unagg = <<>>
    /\ pc = "insert"
    /\ \E sales \in Batches :
        /\ supabase_sales = prepare_sales_for_supabase(sales, Formatted(today))
        /\ deduplicated_sales = deduplicate_new_sales_data(supabase_sales)
    /\ existing_sales = <<>>
    /\ old_deleted = 0
    /\ internal_duplicates_removed = Len(supabase_sales) - Len(deduplicated_sales)
    /\ existing_duplicates_deleted = 0
    /\ summary = NoSummary
    /\ failed = {}
    /\ stages = <<"prune", "dedup", "resolve">>
    /\ store0 = <<>>
    /\ store_in = <<>>
    /\ n_inserted = 0
    /\ runs = 1
    /\ all_ok = TRUE
    /\ uploads = <<>>
    /\ LET r == delete_existing_duplicate_sales(<<>>, deduplicated_sales, 0)
       IN  requests = [NoRequests EXCEPT !.queries = r.queries,
                                         !.range = r.range,
                                         !.deletes = r.deletes,
                                         !.batches = r.batches]
    /\ listings_unagg = <<>>
    /\ supabase_listings = <<>>

NextInsert ==
    \/ InsertDataInBatches
    \/ Summarize

SpecInsert == InitInsert /\ [][NextInsert]_vars

\* the records of a sequence of chunks, in order
RECURSIVE Concat(_)
Concat(chunks) ==
    IF chunks = <<>> THEN <<>> ELSE Head(chunks) \o Concat(Tail(chunks))

\* C24: insert_data_in_batches sends consecutive chunks of at most batch_size
\* records in input order; when no insert fails the chunks put together are
\* the input, every record is inserted once, the number of requests is
\* ceil(n / batch_size), and an empty input sends no request.
C24_InsertChunks ==
    LastStage = "insert" =>
        LET chunks == requests.inserts
            sent == Concat(chunks)
            n == Len(deduplicated_sales)
        IN  /\ \A k \in 1..Len(chunks) :
                /\ Len(chunks[k]) >= 1
                /\ Len(chunks[k]) <= config.batch_size
                /\ k < Len(chunks) => Len(chunks[k]) = config.batch_size
            /\ Len(sent) <= n
            /\ sent = SubSeq(deduplicated_sales, 1, Len(sent))
            /\ n = 0 => chunks = <<>>
            /\ "insert" \notin failed =>
                /\ sent = deduplicated_sales
                /\ Len(chunks) = CeilDiv(n, config.batch_size)
                /\ sales_unagg = store_in \o deduplicated_sales
                /\ n_inserted = n

\* three records were inserted with batch size 2: a chunk of two, a chunk of one
C24_Witness ==
    /\ LastStage = "insert" /\ "insert" \notin failed
    /\ config.batch_size = 2
    /\ Len(deduplicated_sales) = 3
    /\ Len(requests.inserts) = 2
    /\ Len(requests.inserts[1]) = 2 /\ Len(requests.inserts[2]) = 1
    /\ Len(sales_unagg) = 3

(***************************************************************************)
(* The full refresh of listings_unagg on two days, with every failure of   *)
(* its requests: upload_all_data is called with listings and no sales on a *)
(* table that holds the rows of an earlier day.                            *)
(***************************************************************************)
ListingBatches == UNION {[1..n -> Listings] : n \in 0..MaxListings}

\* the days the pipeline runs on
ListingDays ==
    { [year |-> 2025, month |-> 6, day |-> 14],
      [year |-> 2025, month |-> 6, day |-> 15] }

\* listings_unagg as a run of June 14 left it, with at least one row
ListingTables ==
    { prepare_listings_for_supabase(rows, 20250614) :
        rows \in ListingBatches \ {<<>>} }

InitListings ==
    /\ config = [retention_window |-> retention_window, batch_size |-> batch_size]
    /\ today = [year |-> 2025, month |-> 6, day |-> 14]
    /\ sales_unagg = <<>>
    /\ pc = "idle"
    /\ supabase_sales = <<>>
    /\ deduplicated_sales = <<>>
    /\ existing_sales = <<>>
    /\ old_deleted = 0
    /\ internal_duplicates_removed = 0
    /\ existing_duplicates_deleted = 0
    /\ summary = NoSummary
    /\ failed = {}
    /\ stages = <<>>
    /\ store0 = <<>>
    /\ store_in = <<>>
    /\ n_inserted = 0
    /\ runs = 0
    /\ all_ok = TRUE
    /\ uploads = <<>>
    /\ requests = NoRequests
    /\ listings_unagg \in ListingTables
    /\ supabase_listings = <<>>

\* a run of the pipeline calls upload_all_data with listings and no sales
StartListings ==
    /\ pc = "idle"
    /\ runs < MaxRuns
    /\ \E now \in ListingDays, listings \in ListingBatches,
          early \in BOOLEAN, fault \in 0..4, failAt \in 0..1 :
        /\ Formatted(now) >= Formatted(today)
        /\ BeginUpload(now, <<>>,
                       prepare_listings_for_supabase(listings, Formatted(now)),
                       early, fault, failAt)
    /\ runs' = runs + 1

NextListings ==
    \/ StartListings
    \/ DeleteOldSalesData
    \/ DeduplicateNewSalesData
    \/ DeleteExistingDuplicateSales
    \/ InsertDataInBatches
    \/ Summarize
    \/ Return

SpecListings == InitListings /\ [][NextListings]_vars

\* the call is past its listings step
ListingsDone == pc \notin {"idle", "aborted_refresh"}

\* C25: after the listings step the listings_unagg table holds exactly the
\* listing rows of the current run and none of an earlier run, whether the
\* date-based deletes cleared it or the direct delete of the fallback did;
\* clearing never raises, also when both strategies fail: the insert follows,
\* and only an exception of the summary refreshes or of the insert ends the
\* call before the sales part.
C25_FullRefresh ==
    /\ pc = "aborted_refresh" =>
        failed \cap {"summary_refresh", "insert_listings"} # {}
    /\ (pc = "aborted_refresh" /\ "insert_listings" \in failed
            /\ "direct_clear" \notin failed) => listings_unagg = <<>>
    /\ (ListingsDone /\ "direct_clear" \notin failed) =>
        /\ listings_unagg = supabase_listings
        /\ \A i \in 1..Len(listings_unagg) :
            listings_unagg[i].as_of_date = Formatted(today)
    /\ (ListingsDone /\ "direct_clear" \in failed) =>
        /\ Len(listings_unagg) >= Len(supabase_listings)
        /\ SubSeq(listings_unagg,
                  Len(listings_unagg) - Len(supabase_listings) + 1,
                  Len(listings_unagg)) = supabase_listings

\* the table held rows of June 14; on June 15 the date-based clearing failed,
\* the direct delete of the fallback cleared the table, and the listings of
\* the run are the table
C25_Witness ==
    /\ runs = 1 /\ pc = "prune"
    /\ today.day = 15
    /\ failed = {"date_clear"}
    /\ supabase_listings # <<>>
    /\ listings_unagg = supabase_listings

=============================================================================
